---- MODULE Spec2Model ----
(***************************************************************************)
(* Suistody Core: the agent_vault Move module (the authoritative policy    *)
(* enforcement path) and the TypeScript checkPolicy mirror.                *)
(*                                                                         *)
(* A Move transaction either commits all its effects or aborts with none:  *)
(* every operation below evaluates its assertions in source order, and the *)
(* ledger takes the updated objects only when none of them fails.          *)
(***************************************************************************)
EXTENDS Integers, Sequences, FiniteSets, TLC

VARIABLES
    vaults,       \* shared Vault objects: object id -> Vault
    owner_caps,   \* OwnerCap objects: object id -> [vault_id, holder]
    agent_caps,   \* AgentCap objects: object id -> [vault_id, holder]
    next_id,      \* the next fresh object id handed out by object::new
    clock,        \* the ledger Clock, timestamp_ms
    last,         \* outcome of the last transaction: operation, result, the
                  \* coin it returned and the events it emitted
    revoked,      \* history: cap ids that revoke_agent_cap has removed
    hist,         \* history: per vault, the successful agent_withdraw calls
                  \*          since the later of creation and the last reset
    steps,        \* size of the run so far: one per committed transaction,
                  \* and one more for a create_vault
    sdk           \* the agent's process, off the ledger: the SDK function it
                  \* called last, with its arguments and what it came to

vars == <<vaults, owner_caps, agent_caps, next_id, clock, last,
          revoked, hist, steps, sdk>>

-----------------------------------------------------------------------------
(* Bounds of the model *)

MaxSteps == 5
MaxClock == 1

Coins == {0, 1, 2}
MaxCoin == Cardinality(Coins) - 1
MaxBalance == MaxCoin + 1
Addresses == {"0xA", "0xB"}
AgentAddresses == {"0xB"}
ActionTypes == {0, 1}

\* The policies the owner chooses among, in create_vault and update_policy:
\* a permissive one, one with a per-transaction cap and a cooldown, and one
\* with no budget, an empty whitelist and an early expiry.
PolicyChoices ==
    { [max_budget |-> MaxCoin, max_per_tx |-> MaxCoin, allowed_actions |-> <<0>>,
       cooldown_ms |-> 0, expires_at |-> MaxClock + 1],
      [max_budget |-> MaxCoin, max_per_tx |-> 1, allowed_actions |-> <<0, 1>>,
       cooldown_ms |-> 1, expires_at |-> MaxClock + 1],
      [max_budget |-> 0, max_per_tx |-> MaxCoin, allowed_actions |-> <<>>,
       cooldown_ms |-> 0, expires_at |-> 1] }

-----------------------------------------------------------------------------
(* Error constants *)

E_NOT_OWNER == 0
E_BUDGET_EXCEEDED == 1
E_NOT_WHITELISTED == 2
E_EXPIRED == 3
E_COOLDOWN == 4
E_INVALID_CAP == 5
E_INSUFFICIENT_BALANCE == 6
E_PER_TX_EXCEEDED == 7
E_ZERO_AMOUNT == 8

\* How a transaction ends: it commits, an assert! aborts it with a code, or
\* an unsigned subtraction below zero aborts it with an arithmetic error.
Success == [status |-> "success"]
Abort(code) == [status |-> "abort", code |-> code]
ArithmeticError == [status |-> "arithmetic_error"]

-----------------------------------------------------------------------------
(* Structs *)

Policy(max_budget, max_per_tx, allowed_actions, cooldown_ms, expires_at) ==
    [max_budget |-> max_budget, max_per_tx |-> max_per_tx,
     allowed_actions |-> allowed_actions, cooldown_ms |-> cooldown_ms,
     expires_at |-> expires_at]

\* a new vault that does not take the coin in
Vault_without_coin(owner, balance, policy) ==
    [owner |-> owner, balance_sui |-> 0, policy |-> policy,
     authorized_caps |-> <<>>, total_spent |-> 0, last_tx_time |-> 0,
     tx_count |-> 0]

Vault(owner, balance, policy) ==
    [owner |-> owner, balance_sui |-> balance, policy |-> policy,
     authorized_caps |-> <<>>, total_spent |-> 0, last_tx_time |-> 0,
     tx_count |-> 0]

AgentCap(vault_id, holder) == [vault_id |-> vault_id, holder |-> holder]

OwnerCap(vault_id, holder) == [vault_id |-> vault_id, holder |-> holder]

\* vector::index_of: <<found, index>>, the index of the first occurrence
index_of(vec, e) ==
    IF \E i \in 1 .. Len(vec) : vec[i] = e
    THEN <<TRUE, CHOOSE i \in 1 .. Len(vec) :
                    vec[i] = e /\ \A j \in 1 .. i - 1 : vec[j] # e>>
    ELSE <<FALSE, 0>>

\* vector::contains
contains(vec, e) == \E i \in 1 .. Len(vec) : vec[i] = e

\* vector::remove: the vector without its element at idx, order kept
vector_remove(vec, idx) ==
    [i \in 1 .. Len(vec) - 1 |-> IF i < idx THEN vec[i] ELSE vec[i + 1]]

NoEvents == <<>>

Outcome(op, vault_id, cap_id, result, coin, emitted) ==
    [op |-> op, vault |-> vault_id, cap |-> cap_id, result |-> result,
     coin |-> coin, emitted |-> emitted]

-----------------------------------------------------------------------------
(* Initial state: a ledger on which the package has just been published *)

Init ==
    /\ vaults = << >>
    /\ owner_caps = << >>
    /\ agent_caps = << >>
    /\ next_id = 1
    /\ clock = 0
    /\ last = Outcome("none", 0, 0, Success, 0, NoEvents)
    /\ revoked = {}
    /\ hist = << >>
    /\ steps = 0
    /\ sdk = [fn |-> "none"]

-----------------------------------------------------------------------------
(* Events *)

VaultCreated(vault_id, owner, initial_balance, max_budget) ==
    [type |-> "VaultCreated", vault_id |-> vault_id, owner |-> owner,
     initial_balance |-> initial_balance, max_budget |-> max_budget]

AgentWithdrawal(vault_id, agent_cap_id, amount, action_type, total_spent, remaining_budget, tx_count, timestamp) ==
    [type |-> "AgentWithdrawal", vault_id |-> vault_id,
     agent_cap_id |-> agent_cap_id, amount |-> amount,
     action_type |-> action_type, total_spent |-> total_spent,
     remaining_budget |-> remaining_budget, tx_count |-> tx_count,
     timestamp |-> timestamp]

PolicyUpdated(vault_id, max_budget, max_per_tx, cooldown_ms, expires_at) ==
    [type |-> "PolicyUpdated", vault_id |-> vault_id, max_budget |-> max_budget,
     max_per_tx |-> max_per_tx, cooldown_ms |-> cooldown_ms,
     expires_at |-> expires_at]

AgentCapCreated(vault_id, cap_id, agent_address) ==
    [type |-> "AgentCapCreated", vault_id |-> vault_id, cap_id |-> cap_id,
     agent_address |-> agent_address]

AgentCapRevoked(vault_id, cap_id) ==
    [type |-> "AgentCapRevoked", vault_id |-> vault_id, cap_id |-> cap_id]

Deposited(vault_id, amount, new_balance) ==
    [type |-> "Deposited", vault_id |-> vault_id, amount |-> amount,
     new_balance |-> new_balance]

WithdrawnAll(vault_id, amount) ==
    [type |-> "WithdrawnAll", vault_id |-> vault_id, amount |-> amount]

-----------------------------------------------------------------------------
(* The ledger's part of a transaction on one vault: with result Success the  *)
(* updated vault, the returned coin and the events are taken; an aborted     *)
(* transaction leaves every object as it was, returns and emits nothing.     *)

Commit(op, vault_id, cap_id, result, new_vault, coin, emitted) ==
    IF result = Success
    THEN /\ steps < MaxSteps
         /\ vaults' = [vaults EXCEPT ![vault_id] = new_vault]
         /\ last' = Outcome(op, vault_id, cap_id, result, coin, emitted)
         /\ steps' = steps + 1
    ELSE /\ last' = Outcome(op, vault_id, cap_id, result, 0, NoEvents)
         /\ UNCHANGED <<vaults, steps>>

-----------------------------------------------------------------------------
(* create_vault *)

create_vault(sender, coin, policy) ==
    /\ steps + 1 < MaxSteps
    /\ \A v \in DOMAIN vaults : vaults[v].owner # sender
    /\ LET vault_id == next_id
           owner_cap_id == next_id + 1
       IN /\ vaults' = vaults @@ (vault_id :> Vault(sender, coin, policy))
          /\ owner_caps' = owner_caps @@ (owner_cap_id :> OwnerCap(vault_id, sender))
          /\ hist' = hist @@ (vault_id :> <<>>)
          /\ next_id' = next_id + 2
          /\ last' = Outcome("create_vault", vault_id, owner_cap_id, Success, 0,
                             <<VaultCreated(vault_id, sender, coin, policy.max_budget)>>)
    /\ steps' = steps + 2
    /\ UNCHANGED <<agent_caps, clock, revoked, sdk>>

-----------------------------------------------------------------------------
(* deposit *)

\* deposit without the owner check
deposit_result_any_cap(vault_id, owner_cap) ==
    Success

deposit_result(vault_id, owner_cap) ==
    IF owner_cap.vault_id # vault_id THEN Abort(E_NOT_OWNER) ELSE Success

\* deposit that replaces the balance by the coin
deposit_update_replaces(vault, coin) ==
    [vault EXCEPT !.balance_sui = coin]

deposit_update(vault, coin) ==
    [vault EXCEPT !.balance_sui = @ + coin]

deposit(vault_id, owner_cap_id, coin) ==
    /\ vaults[vault_id].balance_sui + coin <= MaxBalance
    /\ LET new_vault == deposit_update(vaults[vault_id], coin)
       IN Commit("deposit", vault_id, owner_cap_id,
                 deposit_result(vault_id, owner_caps[owner_cap_id]),
                 new_vault, 0,
                 <<Deposited(vault_id, coin, new_vault.balance_sui)>>)
    /\ UNCHANGED <<owner_caps, agent_caps, next_id, clock, revoked, hist, sdk>>

-----------------------------------------------------------------------------
(* withdraw_all *)

withdraw_all_result(vault_id, owner_cap) ==
    IF owner_cap.vault_id # vault_id THEN Abort(E_NOT_OWNER) ELSE Success

\* withdraw_all that also clears the spending counters
withdraw_all_update_and_reset(vault) ==
    [vault EXCEPT !.balance_sui = 0, !.total_spent = 0, !.tx_count = 0,
                  !.last_tx_time = 0]

withdraw_all_update(vault) ==
    [vault EXCEPT !.balance_sui = @ - vault.balance_sui]

withdraw_all(vault_id, owner_cap_id) ==
    /\ LET amount == vaults[vault_id].balance_sui
       IN Commit("withdraw_all", vault_id, owner_cap_id,
                 withdraw_all_result(vault_id, owner_caps[owner_cap_id]),
                 withdraw_all_update(vaults[vault_id]), amount,
                 <<WithdrawnAll(vault_id, amount)>>)
    /\ UNCHANGED <<owner_caps, agent_caps, next_id, clock, revoked, hist, sdk>>

-----------------------------------------------------------------------------
(* withdraw *)

\* owner withdraw held to the per-transaction limit of the policy
withdraw_result_per_tx_limited(vault, vault_id, owner_cap, amount) ==
    IF owner_cap.vault_id # vault_id THEN Abort(E_NOT_OWNER)
    ELSE IF ~(amount > 0) THEN Abort(E_ZERO_AMOUNT)
    ELSE IF ~(vault.balance_sui >= amount) THEN Abort(E_INSUFFICIENT_BALANCE)
    ELSE IF ~(amount <= vault.policy.max_per_tx) THEN Abort(E_PER_TX_EXCEEDED)
    ELSE Success

\* owner withdraw without the balance check
withdraw_result_balance_unchecked(vault, vault_id, owner_cap, amount) ==
    IF owner_cap.vault_id # vault_id THEN Abort(E_NOT_OWNER)
    ELSE IF ~(amount > 0) THEN Abort(E_ZERO_AMOUNT)
    ELSE Success

withdraw_result(vault, vault_id, owner_cap, amount) ==
    IF owner_cap.vault_id # vault_id THEN Abort(E_NOT_OWNER)
    ELSE IF ~(amount > 0) THEN Abort(E_ZERO_AMOUNT)
    ELSE IF ~(vault.balance_sui >= amount) THEN Abort(E_INSUFFICIENT_BALANCE)
    ELSE Success

\* owner withdraw that counts as delegated spending
withdraw_update_counts_spent(vault, amount) ==
    [vault EXCEPT !.balance_sui = @ - amount, !.total_spent = @ + amount]

withdraw_update(vault, amount) ==
    [vault EXCEPT !.balance_sui = @ - amount]

withdraw(vault_id, owner_cap_id, amount) ==
    /\ Commit("withdraw", vault_id, owner_cap_id,
              withdraw_result(vaults[vault_id], vault_id,
                              owner_caps[owner_cap_id], amount),
              withdraw_update(vaults[vault_id], amount), amount, NoEvents)
    /\ UNCHANGED <<owner_caps, agent_caps, next_id, clock, revoked, hist, sdk>>

-----------------------------------------------------------------------------
(* reset_counters *)

reset_counters_result(vault_id, owner_cap) ==
    IF owner_cap.vault_id # vault_id THEN Abort(E_NOT_OWNER) ELSE Success

\* reset_counters that leaves last_tx_time
reset_counters_update_keeps_time(vault) ==
    [vault EXCEPT !.total_spent = 0, !.tx_count = 0]

reset_counters_update(vault) ==
    [vault EXCEPT !.total_spent = 0, !.tx_count = 0, !.last_tx_time = 0]

reset_counters(vault_id, owner_cap_id) ==
    /\ LET result == reset_counters_result(vault_id, owner_caps[owner_cap_id])
       IN /\ Commit("reset_counters", vault_id, owner_cap_id, result,
                    reset_counters_update(vaults[vault_id]), 0, NoEvents)
          /\ hist' = IF result = Success
                     THEN [hist EXCEPT ![vault_id] = <<>>] ELSE hist
    /\ UNCHANGED <<owner_caps, agent_caps, next_id, clock, revoked, sdk>>

-----------------------------------------------------------------------------
(* update_policy *)

update_policy_result(vault_id, owner_cap) ==
    IF owner_cap.vault_id # vault_id THEN Abort(E_NOT_OWNER) ELSE Success

\* update_policy that keeps the old whitelist
update_policy_update_keeps_actions(vault, max_budget, max_per_tx, allowed_actions, cooldown_ms, expires_at) ==
    [vault EXCEPT !.policy = Policy(max_budget, max_per_tx, vault.policy.allowed_actions,
                                    cooldown_ms, expires_at)]

update_policy_update(vault, max_budget, max_per_tx, allowed_actions, cooldown_ms, expires_at) ==
    [vault EXCEPT !.policy = Policy(max_budget, max_per_tx, allowed_actions,
                                    cooldown_ms, expires_at)]

update_policy(vault_id, owner_cap_id, p) ==
    /\ Commit("update_policy", vault_id, owner_cap_id,
              update_policy_result(vault_id, owner_caps[owner_cap_id]),
              update_policy_update(vaults[vault_id], p.max_budget, p.max_per_tx,
                                   p.allowed_actions, p.cooldown_ms, p.expires_at),
              0,
              <<PolicyUpdated(vault_id, p.max_budget, p.max_per_tx,
                              p.cooldown_ms, p.expires_at)>>)
    /\ UNCHANGED <<owner_caps, agent_caps, next_id, clock, revoked, hist, sdk>>

-----------------------------------------------------------------------------
(* create_agent_cap *)

create_agent_cap_result(vault_id, owner_cap) ==
    IF owner_cap.vault_id # vault_id THEN Abort(E_NOT_OWNER) ELSE Success

\* create_agent_cap that keeps a single authorized capability
create_agent_cap_update_replaces(vault, cap_id) ==
    [vault EXCEPT !.authorized_caps = <<cap_id>>]

\* create_agent_cap that registers the new identifier twice
create_agent_cap_update_twice(vault, cap_id) ==
    [vault EXCEPT !.authorized_caps = Append(Append(@, cap_id), cap_id)]

create_agent_cap_update(vault, cap_id) ==
    [vault EXCEPT !.authorized_caps = Append(@, cap_id)]

create_agent_cap(vault_id, owner_cap_id, agent_address) ==
    /\ LET result == create_agent_cap_result(vault_id, owner_caps[owner_cap_id])
           cap_id == next_id
       IN /\ Commit("create_agent_cap", vault_id, owner_cap_id, result,
                    create_agent_cap_update(vaults[vault_id], cap_id), 0,
                    <<AgentCapCreated(vault_id, cap_id, agent_address)>>)
          /\ IF result = Success
             THEN /\ agent_caps' = agent_caps @@
                                     (cap_id :> AgentCap(vault_id, agent_address))
                  /\ next_id' = next_id + 1
             ELSE UNCHANGED <<agent_caps, next_id>>
    /\ UNCHANGED <<owner_caps, clock, revoked, hist, sdk>>

-----------------------------------------------------------------------------
(* revoke_agent_cap *)

\* revoke_agent_cap without the assertion that the identifier was found
revoke_agent_cap_result_unchecked(vault, vault_id, owner_cap, cap_id) ==
    IF owner_cap.vault_id # vault_id THEN Abort(E_NOT_OWNER)
    ELSE Success

revoke_agent_cap_result(vault, vault_id, owner_cap, cap_id) ==
    IF owner_cap.vault_id # vault_id THEN Abort(E_NOT_OWNER)
    ELSE IF ~index_of(vault.authorized_caps, cap_id)[1] THEN Abort(E_INVALID_CAP)
    ELSE Success

\* revoke_agent_cap with the index confused: removes the first element
revoke_agent_cap_update_first(vault, cap_id) ==
    [vault EXCEPT !.authorized_caps = vector_remove(@, 1)]

revoke_agent_cap_update(vault, cap_id) ==
    [vault EXCEPT !.authorized_caps =
        vector_remove(@, index_of(vault.authorized_caps, cap_id)[2])]

revoke_agent_cap(vault_id, owner_cap_id, cap_id) ==
    /\ LET result == revoke_agent_cap_result(vaults[vault_id], vault_id,
                                             owner_caps[owner_cap_id], cap_id)
       IN /\ Commit("revoke_agent_cap", vault_id, owner_cap_id, result,
                    revoke_agent_cap_update(vaults[vault_id], cap_id), 0,
                    <<AgentCapRevoked(vault_id, cap_id)>>)
          /\ revoked' = IF result = Success THEN revoked \cup {cap_id} ELSE revoked
    /\ UNCHANGED <<owner_caps, agent_caps, next_id, clock, hist, sdk>>

-----------------------------------------------------------------------------
(* agent_withdraw *)

\* agent_withdraw without assertion 2, the registry membership
agent_withdraw_result_no_registry(vault, vault_id, cap, cap_id, amount, action_type, now) ==
    IF ~(amount > 0) THEN Abort(E_ZERO_AMOUNT)
    ELSE IF cap.vault_id # vault_id THEN Abort(E_INVALID_CAP)
    ELSE IF ~(now < vault.policy.expires_at) THEN Abort(E_EXPIRED)
    ELSE IF vault.tx_count > 0 /\ now < vault.last_tx_time THEN ArithmeticError
    ELSE IF vault.tx_count > 0
            /\ ~(now - vault.last_tx_time >= vault.policy.cooldown_ms)
         THEN Abort(E_COOLDOWN)
    ELSE IF ~(amount <= vault.policy.max_per_tx) THEN Abort(E_PER_TX_EXCEEDED)
    ELSE IF vault.policy.max_budget < vault.total_spent THEN ArithmeticError
    ELSE IF ~(amount <= vault.policy.max_budget - vault.total_spent)
         THEN Abort(E_BUDGET_EXCEEDED)
    ELSE IF ~contains(vault.policy.allowed_actions, action_type)
         THEN Abort(E_NOT_WHITELISTED)
    ELSE IF ~(vault.balance_sui >= amount) THEN Abort(E_INSUFFICIENT_BALANCE)
    ELSE Success

\* agent_withdraw with the cooldown checked on the first transaction too
agent_withdraw_result_cooldown_always(vault, vault_id, cap, cap_id, amount, action_type, now) ==
    IF ~(amount > 0) THEN Abort(E_ZERO_AMOUNT)
    ELSE IF cap.vault_id # vault_id THEN Abort(E_INVALID_CAP)
    ELSE IF ~index_of(vault.authorized_caps, cap_id)[1] THEN Abort(E_INVALID_CAP)
    ELSE IF ~(now < vault.policy.expires_at) THEN Abort(E_EXPIRED)
    ELSE IF now < vault.last_tx_time THEN ArithmeticError
    ELSE IF ~(now - vault.last_tx_time >= vault.policy.cooldown_ms)
         THEN Abort(E_COOLDOWN)
    ELSE IF ~(amount <= vault.policy.max_per_tx) THEN Abort(E_PER_TX_EXCEEDED)
    ELSE IF vault.policy.max_budget < vault.total_spent THEN ArithmeticError
    ELSE IF ~(amount <= vault.policy.max_budget - vault.total_spent)
         THEN Abort(E_BUDGET_EXCEEDED)
    ELSE IF ~contains(vault.policy.allowed_actions, action_type)
         THEN Abort(E_NOT_WHITELISTED)
    ELSE IF ~(vault.balance_sui >= amount) THEN Abort(E_INSUFFICIENT_BALANCE)
    ELSE Success

\* agent_withdraw with the cooldown comparison strict (> for >=)
agent_withdraw_result_cooldown_strict(vault, vault_id, cap, cap_id, amount, action_type, now) ==
    IF ~(amount > 0) THEN Abort(E_ZERO_AMOUNT)
    ELSE IF cap.vault_id # vault_id THEN Abort(E_INVALID_CAP)
    ELSE IF ~index_of(vault.authorized_caps, cap_id)[1] THEN Abort(E_INVALID_CAP)
    ELSE IF ~(now < vault.policy.expires_at) THEN Abort(E_EXPIRED)
    ELSE IF vault.tx_count > 0 /\ now < vault.last_tx_time THEN ArithmeticError
    ELSE IF vault.tx_count > 0
            /\ ~(now - vault.last_tx_time > vault.policy.cooldown_ms)
         THEN Abort(E_COOLDOWN)
    ELSE IF ~(amount <= vault.policy.max_per_tx) THEN Abort(E_PER_TX_EXCEEDED)
    ELSE IF vault.policy.max_budget < vault.total_spent THEN ArithmeticError
    ELSE IF ~(amount <= vault.policy.max_budget - vault.total_spent)
         THEN Abort(E_BUDGET_EXCEEDED)
    ELSE IF ~contains(vault.policy.allowed_actions, action_type)
         THEN Abort(E_NOT_WHITELISTED)
    ELSE IF ~(vault.balance_sui >= amount) THEN Abort(E_INSUFFICIENT_BALANCE)
    ELSE Success

\* agent_withdraw with the expiry comparison inclusive (<= for <)
agent_withdraw_result_expiry_inclusive(vault, vault_id, cap, cap_id, amount, action_type, now) ==
    IF ~(amount > 0) THEN Abort(E_ZERO_AMOUNT)
    ELSE IF cap.vault_id # vault_id THEN Abort(E_INVALID_CAP)
    ELSE IF ~index_of(vault.authorized_caps, cap_id)[1] THEN Abort(E_INVALID_CAP)
    ELSE IF ~(now <= vault.policy.expires_at) THEN Abort(E_EXPIRED)
    ELSE IF vault.tx_count > 0 /\ now < vault.last_tx_time THEN ArithmeticError
    ELSE IF vault.tx_count > 0
            /\ ~(now - vault.last_tx_time >= vault.policy.cooldown_ms)
         THEN Abort(E_COOLDOWN)
    ELSE IF ~(amount <= vault.policy.max_per_tx) THEN Abort(E_PER_TX_EXCEEDED)
    ELSE IF vault.policy.max_budget < vault.total_spent THEN ArithmeticError
    ELSE IF ~(amount <= vault.policy.max_budget - vault.total_spent)
         THEN Abort(E_BUDGET_EXCEEDED)
    ELSE IF ~contains(vault.policy.allowed_actions, action_type)
         THEN Abort(E_NOT_WHITELISTED)
    ELSE IF ~(vault.balance_sui >= amount) THEN Abort(E_INSUFFICIENT_BALANCE)
    ELSE Success

\* agent_withdraw with the per-transaction bound exclusive (< for <=)
agent_withdraw_result_per_tx_exclusive(vault, vault_id, cap, cap_id, amount, action_type, now) ==
    IF ~(amount > 0) THEN Abort(E_ZERO_AMOUNT)
    ELSE IF cap.vault_id # vault_id THEN Abort(E_INVALID_CAP)
    ELSE IF ~index_of(vault.authorized_caps, cap_id)[1] THEN Abort(E_INVALID_CAP)
    ELSE IF ~(now < vault.policy.expires_at) THEN Abort(E_EXPIRED)
    ELSE IF vault.tx_count > 0 /\ now < vault.last_tx_time THEN ArithmeticError
    ELSE IF vault.tx_count > 0
            /\ ~(now - vault.last_tx_time >= vault.policy.cooldown_ms)
         THEN Abort(E_COOLDOWN)
    ELSE IF ~(amount < vault.policy.max_per_tx) THEN Abort(E_PER_TX_EXCEEDED)
    ELSE IF vault.policy.max_budget < vault.total_spent THEN ArithmeticError
    ELSE IF ~(amount <= vault.policy.max_budget - vault.total_spent)
         THEN Abort(E_BUDGET_EXCEEDED)
    ELSE IF ~contains(vault.policy.allowed_actions, action_type)
         THEN Abort(E_NOT_WHITELISTED)
    ELSE IF ~(vault.balance_sui >= amount) THEN Abort(E_INSUFFICIENT_BALANCE)
    ELSE Success

\* agent_withdraw without assertion 7, the action whitelist
agent_withdraw_result_no_whitelist(vault, vault_id, cap, cap_id, amount, action_type, now) ==
    IF ~(amount > 0) THEN Abort(E_ZERO_AMOUNT)
    ELSE IF cap.vault_id # vault_id THEN Abort(E_INVALID_CAP)
    ELSE IF ~index_of(vault.authorized_caps, cap_id)[1] THEN Abort(E_INVALID_CAP)
    ELSE IF ~(now < vault.policy.expires_at) THEN Abort(E_EXPIRED)
    ELSE IF vault.tx_count > 0 /\ now < vault.last_tx_time THEN ArithmeticError
    ELSE IF vault.tx_count > 0
            /\ ~(now - vault.last_tx_time >= vault.policy.cooldown_ms)
         THEN Abort(E_COOLDOWN)
    ELSE IF ~(amount <= vault.policy.max_per_tx) THEN Abort(E_PER_TX_EXCEEDED)
    ELSE IF vault.policy.max_budget < vault.total_spent THEN ArithmeticError
    ELSE IF ~(amount <= vault.policy.max_budget - vault.total_spent)
         THEN Abort(E_BUDGET_EXCEEDED)
    ELSE IF ~(vault.balance_sui >= amount) THEN Abort(E_INSUFFICIENT_BALANCE)
    ELSE Success

\* agent_withdraw with a remaining budget that wraps around below zero
\* (16-bit words standing for the 64-bit ones)
agent_withdraw_result_wrapping(vault, vault_id, cap, cap_id, amount, action_type, now) ==
    IF ~(amount > 0) THEN Abort(E_ZERO_AMOUNT)
    ELSE IF cap.vault_id # vault_id THEN Abort(E_INVALID_CAP)
    ELSE IF ~index_of(vault.authorized_caps, cap_id)[1] THEN Abort(E_INVALID_CAP)
    ELSE IF ~(now < vault.policy.expires_at) THEN Abort(E_EXPIRED)
    ELSE IF vault.tx_count > 0 /\ now < vault.last_tx_time THEN ArithmeticError
    ELSE IF vault.tx_count > 0
            /\ ~(now - vault.last_tx_time >= vault.policy.cooldown_ms)
         THEN Abort(E_COOLDOWN)
    ELSE IF ~(amount <= vault.policy.max_per_tx) THEN Abort(E_PER_TX_EXCEEDED)
    ELSE IF ~(amount <= (vault.policy.max_budget - vault.total_spent) % 65536)
         THEN Abort(E_BUDGET_EXCEEDED)
    ELSE IF ~contains(vault.policy.allowed_actions, action_type)
         THEN Abort(E_NOT_WHITELISTED)
    ELSE IF ~(vault.balance_sui >= amount) THEN Abort(E_INSUFFICIENT_BALANCE)
    ELSE Success

\* agent_withdraw that holds each amount, not the running total, against max_budget
agent_withdraw_result_budget_per_call(vault, vault_id, cap, cap_id, amount, action_type, now) ==
    IF ~(amount > 0) THEN Abort(E_ZERO_AMOUNT)
    ELSE IF cap.vault_id # vault_id THEN Abort(E_INVALID_CAP)
    ELSE IF ~index_of(vault.authorized_caps, cap_id)[1] THEN Abort(E_INVALID_CAP)
    ELSE IF ~(now < vault.policy.expires_at) THEN Abort(E_EXPIRED)
    ELSE IF vault.tx_count > 0 /\ now < vault.last_tx_time THEN ArithmeticError
    ELSE IF vault.tx_count > 0
            /\ ~(now - vault.last_tx_time >= vault.policy.cooldown_ms)
         THEN Abort(E_COOLDOWN)
    ELSE IF ~(amount <= vault.policy.max_per_tx) THEN Abort(E_PER_TX_EXCEEDED)
    ELSE IF vault.policy.max_budget < vault.total_spent THEN ArithmeticError
    ELSE IF ~(amount <= vault.policy.max_budget)
         THEN Abort(E_BUDGET_EXCEEDED)
    ELSE IF ~contains(vault.policy.allowed_actions, action_type)
         THEN Abort(E_NOT_WHITELISTED)
    ELSE IF ~(vault.balance_sui >= amount) THEN Abort(E_INSUFFICIENT_BALANCE)
    ELSE Success

\* agent_withdraw that holds the cooldown against the first registered capability only
agent_withdraw_result_cooldown_per_cap(vault, vault_id, cap, cap_id, amount, action_type, now) ==
    IF ~(amount > 0) THEN Abort(E_ZERO_AMOUNT)
    ELSE IF cap.vault_id # vault_id THEN Abort(E_INVALID_CAP)
    ELSE IF ~index_of(vault.authorized_caps, cap_id)[1] THEN Abort(E_INVALID_CAP)
    ELSE IF ~(now < vault.policy.expires_at) THEN Abort(E_EXPIRED)
    ELSE IF vault.tx_count > 0 /\ now < vault.last_tx_time THEN ArithmeticError
    ELSE IF vault.tx_count > 0 /\ cap_id = vault.authorized_caps[1]
            /\ ~(now - vault.last_tx_time >= vault.policy.cooldown_ms)
         THEN Abort(E_COOLDOWN)
    ELSE IF ~(amount <= vault.policy.max_per_tx) THEN Abort(E_PER_TX_EXCEEDED)
    ELSE IF vault.policy.max_budget < vault.total_spent THEN ArithmeticError
    ELSE IF ~(amount <= vault.policy.max_budget - vault.total_spent)
         THEN Abort(E_BUDGET_EXCEEDED)
    ELSE IF ~contains(vault.policy.allowed_actions, action_type)
         THEN Abort(E_NOT_WHITELISTED)
    ELSE IF ~(vault.balance_sui >= amount) THEN Abort(E_INSUFFICIENT_BALANCE)
    ELSE Success

\* agent_withdraw whose cooldown exemption is keyed on last_tx_time = 0
agent_withdraw_result_exempt_by_time(vault, vault_id, cap, cap_id, amount, action_type, now) ==
    IF ~(amount > 0) THEN Abort(E_ZERO_AMOUNT)
    ELSE IF cap.vault_id # vault_id THEN Abort(E_INVALID_CAP)
    ELSE IF ~index_of(vault.authorized_caps, cap_id)[1] THEN Abort(E_INVALID_CAP)
    ELSE IF ~(now < vault.policy.expires_at) THEN Abort(E_EXPIRED)
    ELSE IF vault.tx_count > 0 /\ now < vault.last_tx_time THEN ArithmeticError
    ELSE IF vault.last_tx_time > 0
            /\ ~(now - vault.last_tx_time >= vault.policy.cooldown_ms)
         THEN Abort(E_COOLDOWN)
    ELSE IF ~(amount <= vault.policy.max_per_tx) THEN Abort(E_PER_TX_EXCEEDED)
    ELSE IF vault.policy.max_budget < vault.total_spent THEN ArithmeticError
    ELSE IF ~(amount <= vault.policy.max_budget - vault.total_spent)
         THEN Abort(E_BUDGET_EXCEEDED)
    ELSE IF ~contains(vault.policy.allowed_actions, action_type)
         THEN Abort(E_NOT_WHITELISTED)
    ELSE IF ~(vault.balance_sui >= amount) THEN Abort(E_INSUFFICIENT_BALANCE)
    ELSE Success

\* agent_withdraw that looks at the expiry only once the vault has counted a withdrawal
agent_withdraw_result_expiry_after_first(vault, vault_id, cap, cap_id, amount, action_type, now) ==
    IF ~(amount > 0) THEN Abort(E_ZERO_AMOUNT)
    ELSE IF cap.vault_id # vault_id THEN Abort(E_INVALID_CAP)
    ELSE IF ~index_of(vault.authorized_caps, cap_id)[1] THEN Abort(E_INVALID_CAP)
    ELSE IF vault.tx_count > 0 /\ ~(now < vault.policy.expires_at) THEN Abort(E_EXPIRED)
    ELSE IF vault.tx_count > 0 /\ now < vault.last_tx_time THEN ArithmeticError
    ELSE IF vault.tx_count > 0
            /\ ~(now - vault.last_tx_time >= vault.policy.cooldown_ms)
         THEN Abort(E_COOLDOWN)
    ELSE IF ~(amount <= vault.policy.max_per_tx) THEN Abort(E_PER_TX_EXCEEDED)
    ELSE IF vault.policy.max_budget < vault.total_spent THEN ArithmeticError
    ELSE IF ~(amount <= vault.policy.max_budget - vault.total_spent)
         THEN Abort(E_BUDGET_EXCEEDED)
    ELSE IF ~contains(vault.policy.allowed_actions, action_type)
         THEN Abort(E_NOT_WHITELISTED)
    ELSE IF ~(vault.balance_sui >= amount) THEN Abort(E_INSUFFICIENT_BALANCE)
    ELSE Success

\* The assertions 0..8 in source order; u64 subtraction aborts below zero.
agent_withdraw_result(vault, vault_id, cap, cap_id, amount, action_type, now) ==
    IF ~(amount > 0) THEN Abort(E_ZERO_AMOUNT)
    ELSE IF cap.vault_id # vault_id THEN Abort(E_INVALID_CAP)
    ELSE IF ~index_of(vault.authorized_caps, cap_id)[1] THEN Abort(E_INVALID_CAP)
    ELSE IF ~(now < vault.policy.expires_at) THEN Abort(E_EXPIRED)
    ELSE IF vault.tx_count > 0 /\ now < vault.last_tx_time THEN ArithmeticError
    ELSE IF vault.tx_count > 0
            /\ ~(now - vault.last_tx_time >= vault.policy.cooldown_ms)
         THEN Abort(E_COOLDOWN)
    ELSE IF ~(amount <= vault.policy.max_per_tx) THEN Abort(E_PER_TX_EXCEEDED)
    ELSE IF vault.policy.max_budget < vault.total_spent THEN ArithmeticError
    ELSE IF ~(amount <= vault.policy.max_budget - vault.total_spent)
         THEN Abort(E_BUDGET_EXCEEDED)
    ELSE IF ~contains(vault.policy.allowed_actions, action_type)
         THEN Abort(E_NOT_WHITELISTED)
    ELSE IF ~(vault.balance_sui >= amount) THEN Abort(E_INSUFFICIENT_BALANCE)
    ELSE Success

\* the state update without the write of last_tx_time
agent_withdraw_update_keeps_time(vault, amount, now) ==
    [vault EXCEPT !.total_spent = @ + amount,
                  !.tx_count = @ + 1,
                  !.balance_sui = @ - amount]

\* 9. Update state, 10. extract funds
agent_withdraw_update(vault, amount, now) ==
    [vault EXCEPT !.total_spent = @ + amount,
                  !.last_tx_time = now,
                  !.tx_count = @ + 1,
                  !.balance_sui = @ - amount]

\* agent_withdraw with the counters written before the balance is checked, on
\* a ledger that keeps what a failed call has written
agent_withdraw_counters_first(vault_id, cap_id, amount, action_type) ==
    /\ LET now == clock
           vault == vaults[vault_id]
           result == agent_withdraw_result(vault, vault_id, agent_caps[cap_id],
                                           cap_id, amount, action_type, now)
           counted == [vault EXCEPT !.total_spent = @ + amount,
                                    !.last_tx_time = now,
                                    !.tx_count = @ + 1]
           new_vault == [counted EXCEPT !.balance_sui = @ - amount]
       IN /\ IF result = Abort(E_INSUFFICIENT_BALANCE)
             THEN /\ vaults' = [vaults EXCEPT ![vault_id] = counted]
                  /\ last' = Outcome("agent_withdraw", vault_id, cap_id, result,
                                     0, NoEvents)
                  /\ UNCHANGED steps
             ELSE Commit("agent_withdraw", vault_id, cap_id, result, new_vault,
                         amount,
                         <<AgentWithdrawal(vault_id, cap_id, amount, action_type,
                                           new_vault.total_spent,
                                           new_vault.policy.max_budget
                                               - new_vault.total_spent,
                                           new_vault.tx_count, now)>>)
          /\ hist' = IF result = Success
                     THEN [hist EXCEPT ![vault_id] =
                              Append(@, [time |-> now, amount |-> amount])]
                     ELSE hist
    /\ UNCHANGED <<owner_caps, agent_caps, next_id, clock, revoked, sdk>>

\* agent_withdraw that emits its event before the counters are updated
agent_withdraw_event_before_update(vault_id, cap_id, amount, action_type) ==
    /\ LET now == clock
           result == agent_withdraw_result(vaults[vault_id], vault_id,
                                           agent_caps[cap_id], cap_id, amount,
                                           action_type, now)
           new_vault == agent_withdraw_update(vaults[vault_id], amount, now)
       IN /\ Commit("agent_withdraw", vault_id, cap_id, result, new_vault, amount,
                    <<AgentWithdrawal(vault_id, cap_id, amount, action_type,
                                      vaults[vault_id].total_spent,
                                      new_vault.policy.max_budget
                                          - new_vault.total_spent,
                                      new_vault.tx_count, now)>>)
          /\ hist' = IF result = Success
                     THEN [hist EXCEPT ![vault_id] =
                              Append(@, [time |-> now, amount |-> amount])]
                     ELSE hist
    /\ UNCHANGED <<owner_caps, agent_caps, next_id, clock, revoked, sdk>>

agent_withdraw(vault_id, cap_id, amount, action_type) ==
    /\ LET now == clock
           result == agent_withdraw_result(vaults[vault_id], vault_id,
                                           agent_caps[cap_id], cap_id, amount,
                                           action_type, now)
           new_vault == agent_withdraw_update(vaults[vault_id], amount, now)
       IN /\ Commit("agent_withdraw", vault_id, cap_id, result, new_vault, amount,
                    <<AgentWithdrawal(vault_id, cap_id, amount, action_type,
                                      new_vault.total_spent,
                                      new_vault.policy.max_budget
                                          - new_vault.total_spent,
                                      new_vault.tx_count, now)>>)
          /\ hist' = IF result = Success
                     THEN [hist EXCEPT ![vault_id] =
                              Append(@, [time |-> now, amount |-> amount])]
                     ELSE hist
    /\ UNCHANGED <<owner_caps, agent_caps, next_id, clock, revoked, sdk>>

-----------------------------------------------------------------------------
(* The off-chain mirror *)

\* The VaultData snapshot that getVault materializes from the Vault object
\* balance, maxBudget, maxPerTx and totalSpent go through BigInt(String(.)), which
\* is exact; cooldownMs, expiresAt, lastTxTime and txCount go through Number(),
\* which is exact below 2^53, where every value of this model lies.
parseVaultData(objectId, fields) ==
    [id |-> objectId,
     owner |-> fields.owner,
     balance |-> fields.balance_sui,
     policy |-> [maxBudget |-> fields.policy.max_budget,
                 maxPerTx |-> fields.policy.max_per_tx,
                 allowedActions |-> fields.policy.allowed_actions,
                 cooldownMs |-> fields.policy.cooldown_ms,
                 expiresAt |-> fields.policy.expires_at],
     authorizedCaps |-> fields.authorized_caps,
     totalSpent |-> fields.total_spent,
     lastTxTime |-> fields.last_tx_time,
     txCount |-> fields.tx_count]

PolicyCheckResult(allowed, reason) == [allowed |-> allowed, reason |-> reason]

\* checkPolicy with the budget bound exclusive (>= for >)
checkPolicy_budget_exclusive(vault, actionType, nowMs, amount) ==
    IF nowMs >= vault.policy.expiresAt
    THEN PolicyCheckResult(FALSE, "Policy has expired")
    ELSE IF vault.txCount > 0 /\ nowMs - vault.lastTxTime < vault.policy.cooldownMs
    THEN PolicyCheckResult(FALSE, "Cooldown active")
    ELSE IF ~contains(vault.policy.allowedActions, actionType)
    THEN PolicyCheckResult(FALSE, "is not whitelisted")
    ELSE IF amount # <<>> /\ amount[1] <= 0
    THEN PolicyCheckResult(FALSE, "Amount must be greater than zero")
    ELSE IF amount # <<>> /\ amount[1] > vault.policy.maxPerTx
    THEN PolicyCheckResult(FALSE, "exceeds per-tx limit")
    ELSE IF amount # <<>> /\ amount[1] >= vault.policy.maxBudget - vault.totalSpent
    THEN PolicyCheckResult(FALSE, "exceeds remaining budget")
    ELSE IF amount # <<>> /\ amount[1] > vault.balance
    THEN PolicyCheckResult(FALSE, "Insufficient vault balance")
    ELSE PolicyCheckResult(TRUE, "Policy check passed")

\* checkPolicy that asks for a funded vault when no amount is given
checkPolicy_needs_funds(vault, actionType, nowMs, amount) ==
    IF nowMs >= vault.policy.expiresAt
    THEN PolicyCheckResult(FALSE, "Policy has expired")
    ELSE IF vault.txCount > 0 /\ nowMs - vault.lastTxTime < vault.policy.cooldownMs
    THEN PolicyCheckResult(FALSE, "Cooldown active")
    ELSE IF ~contains(vault.policy.allowedActions, actionType)
    THEN PolicyCheckResult(FALSE, "is not whitelisted")
    ELSE IF amount # <<>> /\ amount[1] <= 0
    THEN PolicyCheckResult(FALSE, "Amount must be greater than zero")
    ELSE IF amount # <<>> /\ amount[1] > vault.policy.maxPerTx
    THEN PolicyCheckResult(FALSE, "exceeds per-tx limit")
    ELSE IF amount # <<>> /\ amount[1] > vault.policy.maxBudget - vault.totalSpent
    THEN PolicyCheckResult(FALSE, "exceeds remaining budget")
    ELSE IF (amount # <<>> /\ amount[1] > vault.balance) \/ vault.balance = 0
    THEN PolicyCheckResult(FALSE, "Insufficient vault balance")
    ELSE PolicyCheckResult(TRUE, "Policy check passed")

\* checkPolicy that throws on a non-positive amount where it should deny
checkPolicy_throws_on_amount(vault, actionType, nowMs, amount) ==
    IF nowMs >= vault.policy.expiresAt
    THEN PolicyCheckResult(FALSE, "Policy has expired")
    ELSE IF vault.txCount > 0 /\ nowMs - vault.lastTxTime < vault.policy.cooldownMs
    THEN PolicyCheckResult(FALSE, "Cooldown active")
    ELSE IF ~contains(vault.policy.allowedActions, actionType)
    THEN PolicyCheckResult(FALSE, "is not whitelisted")
    ELSE IF amount # <<>> /\ amount[1] <= 0
    THEN [thrown |-> "Amount must be greater than zero"]
    ELSE IF amount # <<>> /\ amount[1] > vault.policy.maxPerTx
    THEN PolicyCheckResult(FALSE, "exceeds per-tx limit")
    ELSE IF amount # <<>> /\ amount[1] > vault.policy.maxBudget - vault.totalSpent
    THEN PolicyCheckResult(FALSE, "exceeds remaining budget")
    ELSE IF amount # <<>> /\ amount[1] > vault.balance
    THEN PolicyCheckResult(FALSE, "Insufficient vault balance")
    ELSE PolicyCheckResult(TRUE, "Policy check passed")

\* checkPolicy that denies when the snapshot lists no authorized capability
checkPolicy_needs_capability(vault, actionType, nowMs, amount) ==
    IF vault.authorizedCaps = <<>>
    THEN PolicyCheckResult(FALSE, "No authorized capability")
    ELSE IF nowMs >= vault.policy.expiresAt
    THEN PolicyCheckResult(FALSE, "Policy has expired")
    ELSE IF vault.txCount > 0 /\ nowMs - vault.lastTxTime < vault.policy.cooldownMs
    THEN PolicyCheckResult(FALSE, "Cooldown active")
    ELSE IF ~contains(vault.policy.allowedActions, actionType)
    THEN PolicyCheckResult(FALSE, "is not whitelisted")
    ELSE IF amount # <<>> /\ amount[1] <= 0
    THEN PolicyCheckResult(FALSE, "Amount must be greater than zero")
    ELSE IF amount # <<>> /\ amount[1] > vault.policy.maxPerTx
    THEN PolicyCheckResult(FALSE, "exceeds per-tx limit")
    ELSE IF amount # <<>> /\ amount[1] > vault.policy.maxBudget - vault.totalSpent
    THEN PolicyCheckResult(FALSE, "exceeds remaining budget")
    ELSE IF amount # <<>> /\ amount[1] > vault.balance
    THEN PolicyCheckResult(FALSE, "Insufficient vault balance")
    ELSE PolicyCheckResult(TRUE, "Policy check passed")

\* amount is <<>> when omitted and <<a>> when supplied; the reason is the
\* fixed part of the message.
checkPolicy(vault, actionType, nowMs, amount) ==
    IF nowMs >= vault.policy.expiresAt
    THEN PolicyCheckResult(FALSE, "Policy has expired")
    ELSE IF vault.txCount > 0 /\ nowMs - vault.lastTxTime < vault.policy.cooldownMs
    THEN PolicyCheckResult(FALSE, "Cooldown active")
    ELSE IF ~contains(vault.policy.allowedActions, actionType)
    THEN PolicyCheckResult(FALSE, "is not whitelisted")
    ELSE IF amount # <<>> /\ amount[1] <= 0
    THEN PolicyCheckResult(FALSE, "Amount must be greater than zero")
    ELSE IF amount # <<>> /\ amount[1] > vault.policy.maxPerTx
    THEN PolicyCheckResult(FALSE, "exceeds per-tx limit")
    ELSE IF amount # <<>> /\ amount[1] > vault.policy.maxBudget - vault.totalSpent
    THEN PolicyCheckResult(FALSE, "exceeds remaining budget")
    ELSE IF amount # <<>> /\ amount[1] > vault.balance
    THEN PolicyCheckResult(FALSE, "Insufficient vault balance")
    ELSE PolicyCheckResult(TRUE, "Policy check passed")

-----------------------------------------------------------------------------
(* Agent-side execution (sponsored-tx.ts).  An optional value is a sequence *)
(* of length at most one: undefined is the empty one.  A string that the    *)
(* code inspects (the key read from the environment) is the sequence of its *)
(* characters.  An async call settles as Resolved(value) or                 *)
(* Rejected(error), and an error is the sequence of the parts of its        *)
(* message.  Each function is given the settlement of the one request it    *)
(* sends and yields the calls it made in order, the transaction as it left  *)
(* it, and its own settlement.                                              *)

undefined == << >>

Resolved(value) == [kind |-> "resolved", value |-> value]

Rejected(error) == [kind |-> "rejected", error |-> error]

Call(fn, args) == [fn |-> fn, args |-> args]

Finished(calls, transaction, outcome) ==
    [calls |-> calls, transaction |-> transaction, outcome |-> outcome]

\* result.effects?.status?.status
effectsStatus(result) ==
    IF Len(result.effects) = 0 THEN undefined
    ELSE IF Len(result.effects[1].status) = 0 THEN undefined
    ELSE result.effects[1].status[1].status

\* result.effects?.status?.error ?? "Transaction failed on-chain"
errorMsg(result) ==
    LET error == IF Len(result.effects) = 0 THEN undefined
                 ELSE IF Len(result.effects[1].status) = 0 THEN undefined
                 ELSE result.effects[1].status[1].error
    IN IF Len(error) = 0 THEN "Transaction failed on-chain" ELSE error[1]

\* executeAgentTransaction that throws only on a reported "failure"
executeAgentTransaction_failure_only(transaction, agentKeypair, reply) ==
    LET calls == <<Call("signAndExecuteTransaction",
                        [transaction |-> transaction, signer |-> agentKeypair,
                         options |-> [showEffects |-> TRUE]])>>
    IN IF reply.kind = "rejected"
       THEN Finished(calls, transaction, Rejected(reply.error))
       ELSE IF effectsStatus(reply.value) = <<"failure">>
       THEN Finished(calls, transaction,
                     Rejected(<<"Agent TX failed: ", errorMsg(reply.value)>>))
       ELSE Finished(calls, transaction, Resolved(reply.value.digest))

executeAgentTransaction(transaction, agentKeypair, reply) ==
    LET calls == <<Call("signAndExecuteTransaction",
                        [transaction |-> transaction, signer |-> agentKeypair,
                         options |-> [showEffects |-> TRUE]])>>
    IN IF reply.kind = "rejected"
       THEN Finished(calls, transaction, Rejected(reply.error))
       ELSE IF effectsStatus(reply.value) # <<"success">>
       THEN Finished(calls, transaction,
                     Rejected(<<"Agent TX failed: ", errorMsg(reply.value)>>))
       ELSE Finished(calls, transaction, Resolved(reply.value.digest))

Whitespace == {" ", "\t", "\n"}

\* String.prototype.trim
trim(str) ==
    LET kept == {i \in 1 .. Len(str) : str[i] \notin Whitespace}
    IN IF kept = {} THEN << >>
       ELSE SubSeq(str, CHOOSE i \in kept : \A j \in kept : i <= j,
                        CHOOSE i \in kept : \A j \in kept : i >= j)

\* Ed25519Keypair.fromSecretKey, getPublicKey().toSuiAddress(), signTransaction,
\* transaction.setSender, setGasOwner and build, as far as this code relies on
\* them: an address and a signature are determined by the key, and the built
\* bytes by the transaction with the sender and the gas owner it then has
fromSecretKey(secretKey) == [secretKey |-> secretKey]

toSuiAddress(keypair) == <<"address", keypair.secretKey>>

signTransaction(keypair, bytes) ==
    [bytes |-> bytes, signature |-> <<"signature", keypair.secretKey, bytes>>]

setSender(transaction, sender) == [transaction EXCEPT !.sender = <<sender>>]

setGasOwner(transaction, owner) == [transaction EXCEPT !.gasOwner = <<owner>>]

build(transaction) == <<"bytes", transaction>>

\* executeSponsoredAgentTransaction that sets the sender before it looks at the key
executeSponsoredAgentTransaction_key_checked_late(env, transaction, agentKeypair, reply) ==
    LET sponsorKeyStr == IF Len(env.SPONSOR_PRIVATE_KEY) = 0 THEN undefined
                         ELSE <<trim(env.SPONSOR_PRIVATE_KEY[1])>>
    IN IF Len(sponsorKeyStr) = 0 \/ Len(sponsorKeyStr[1]) = 0
       THEN Finished(<<Call("setSender", toSuiAddress(agentKeypair))>>,
                     setSender(transaction, toSuiAddress(agentKeypair)),
                     Rejected(<<"SPONSOR_PRIVATE_KEY is not set">>))
       ELSE
       LET sponsorKeypair == fromSecretKey(sponsorKeyStr[1])
           agentAddress == toSuiAddress(agentKeypair)
           sponsorAddress == toSuiAddress(sponsorKeypair)
           withSender == setSender(transaction, agentAddress)
           withGasOwner == setGasOwner(withSender, sponsorAddress)
           txBytes == build(withGasOwner)
           agentSig == signTransaction(agentKeypair, txBytes)
           sponsorSig == signTransaction(sponsorKeypair, txBytes)
           calls == <<Call("fromSecretKey", sponsorKeyStr[1]),
                      Call("setSender", agentAddress),
                      Call("setGasOwner", sponsorAddress),
                      Call("build", withGasOwner),
                      Call("signTransaction",
                           [signer |-> agentKeypair, bytes |-> txBytes]),
                      Call("signTransaction",
                           [signer |-> sponsorKeypair, bytes |-> txBytes]),
                      Call("executeTransactionBlock",
                           [transactionBlock |-> txBytes,
                            signature |-> <<agentSig.signature,
                                            sponsorSig.signature>>,
                            options |-> [showEffects |-> TRUE]])>>
       IN IF reply.kind = "rejected"
          THEN Finished(calls, withGasOwner, Rejected(reply.error))
          ELSE IF effectsStatus(reply.value) # <<"success">>
          THEN Finished(calls, withGasOwner,
                        Rejected(<<"Sponsored agent TX failed: ",
                                   errorMsg(reply.value)>>))
          ELSE Finished(calls, withGasOwner, Resolved(reply.value.digest))

\* executeSponsoredAgentTransaction that lists the sponsor signature first
executeSponsoredAgentTransaction_sponsor_first(env, transaction, agentKeypair, reply) ==
    LET sponsorKeyStr == IF Len(env.SPONSOR_PRIVATE_KEY) = 0 THEN undefined
                         ELSE <<trim(env.SPONSOR_PRIVATE_KEY[1])>>
    IN IF Len(sponsorKeyStr) = 0 \/ Len(sponsorKeyStr[1]) = 0
       THEN Finished(<< >>, transaction,
                     Rejected(<<"SPONSOR_PRIVATE_KEY is not set">>))
       ELSE
       LET sponsorKeypair == fromSecretKey(sponsorKeyStr[1])
           agentAddress == toSuiAddress(agentKeypair)
           sponsorAddress == toSuiAddress(sponsorKeypair)
           withSender == setSender(transaction, agentAddress)
           withGasOwner == setGasOwner(withSender, sponsorAddress)
           txBytes == build(withGasOwner)
           agentSig == signTransaction(agentKeypair, txBytes)
           sponsorSig == signTransaction(sponsorKeypair, txBytes)
           calls == <<Call("fromSecretKey", sponsorKeyStr[1]),
                      Call("setSender", agentAddress),
                      Call("setGasOwner", sponsorAddress),
                      Call("build", withGasOwner),
                      Call("signTransaction",
                           [signer |-> agentKeypair, bytes |-> txBytes]),
                      Call("signTransaction",
                           [signer |-> sponsorKeypair, bytes |-> txBytes]),
                      Call("executeTransactionBlock",
                           [transactionBlock |-> txBytes,
                            signature |-> <<sponsorSig.signature,
                                            agentSig.signature>>,
                            options |-> [showEffects |-> TRUE]])>>
       IN IF reply.kind = "rejected"
          THEN Finished(calls, withGasOwner, Rejected(reply.error))
          ELSE IF effectsStatus(reply.value) # <<"success">>
          THEN Finished(calls, withGasOwner,
                        Rejected(<<"Sponsored agent TX failed: ",
                                   errorMsg(reply.value)>>))
          ELSE Finished(calls, withGasOwner, Resolved(reply.value.digest))

executeSponsoredAgentTransaction(env, transaction, agentKeypair, reply) ==
    LET sponsorKeyStr == IF Len(env.SPONSOR_PRIVATE_KEY) = 0 THEN undefined
                         ELSE <<trim(env.SPONSOR_PRIVATE_KEY[1])>>
    IN IF Len(sponsorKeyStr) = 0 \/ Len(sponsorKeyStr[1]) = 0
       THEN Finished(<< >>, transaction,
                     Rejected(<<"SPONSOR_PRIVATE_KEY is not set">>))
       ELSE
       LET sponsorKeypair == fromSecretKey(sponsorKeyStr[1])
           agentAddress == toSuiAddress(agentKeypair)
           sponsorAddress == toSuiAddress(sponsorKeypair)
           withSender == setSender(transaction, agentAddress)
           withGasOwner == setGasOwner(withSender, sponsorAddress)
           txBytes == build(withGasOwner)
           agentSig == signTransaction(agentKeypair, txBytes)
           sponsorSig == signTransaction(sponsorKeypair, txBytes)
           calls == <<Call("fromSecretKey", sponsorKeyStr[1]),
                      Call("setSender", agentAddress),
                      Call("setGasOwner", sponsorAddress),
                      Call("build", withGasOwner),
                      Call("signTransaction",
                           [signer |-> agentKeypair, bytes |-> txBytes]),
                      Call("signTransaction",
                           [signer |-> sponsorKeypair, bytes |-> txBytes]),
                      Call("executeTransactionBlock",
                           [transactionBlock |-> txBytes,
                            signature |-> <<agentSig.signature,
                                            sponsorSig.signature>>,
                            options |-> [showEffects |-> TRUE]])>>
       IN IF reply.kind = "rejected"
          THEN Finished(calls, withGasOwner, Rejected(reply.error))
          ELSE IF effectsStatus(reply.value) # <<"success">>
          THEN Finished(calls, withGasOwner,
                        Rejected(<<"Sponsored agent TX failed: ",
                                   errorMsg(reply.value)>>))
          ELSE Finished(calls, withGasOwner, Resolved(reply.value.digest))

-----------------------------------------------------------------------------
(* The ledger clock advances between transactions and never goes back. *)

Tick ==
    /\ clock < MaxClock
    /\ clock' = clock + 1
    /\ UNCHANGED <<vaults, owner_caps, agent_caps, next_id, last,
                   revoked, hist, steps, sdk>>

VaultIds == DOMAIN vaults
OwnerCapIds == DOMAIN owner_caps
AgentCapIds == DOMAIN agent_caps
ObjectIds == 1 .. next_id - 1

Next ==
    \/ \E sender \in Addresses, coin \in Coins, policy \in PolicyChoices :
          create_vault(sender, coin, policy)
    \/ \E v \in VaultIds, oc \in OwnerCapIds, coin \in Coins : deposit(v, oc, coin)
    \/ \E v \in VaultIds, oc \in OwnerCapIds : withdraw_all(v, oc)
    \/ \E v \in VaultIds, oc \in OwnerCapIds, amount \in Coins : withdraw(v, oc, amount)
    \/ \E v \in VaultIds, oc \in OwnerCapIds : reset_counters(v, oc)
    \/ \E v \in VaultIds, oc \in OwnerCapIds, p \in PolicyChoices :
          update_policy(v, oc, p)
    \/ \E v \in VaultIds, oc \in OwnerCapIds, a \in AgentAddresses :
          create_agent_cap(v, oc, a)
    \/ \E v \in VaultIds, oc \in OwnerCapIds, c \in ObjectIds :
          revoke_agent_cap(v, oc, c)
    \/ \E v \in VaultIds, c \in AgentCapIds, amount \in Coins, a \in ActionTypes :
          agent_withdraw(v, c, amount, a)
    \/ Tick

Spec == Init /\ [][Next]_vars

-----------------------------------------------------------------------------
(* The SDK functions run in the agent's process, off the ledger.  SdkSpec   *)
(* is that process making one call, on arguments and client answers drawn  *)
(* from bounded sets; the ledger stays as published.                        *)

ledger == <<vaults, owner_caps, agent_caps, next_id, clock, last,
            revoked, hist, steps>>

\* the vault snapshots getVault can hand to checkPolicy
Snapshots ==
    {parseVaultData(1, [Vault("0xA", balance, policy) EXCEPT
                           !.total_spent = total_spent,
                           !.last_tx_time = last_tx_time,
                           !.tx_count = tx_count]) :
        balance \in 0 .. MaxBalance, policy \in PolicyChoices,
        total_spent \in 0 .. MaxBalance, last_tx_time \in 0 .. MaxClock,
        tx_count \in 0 .. MaxCoin}

\* the times and amounts given to checkPolicy: an amount can be omitted, and
\* a number it is given can be negative
NowValues == 0 .. MaxClock + 1
SignedAmounts == -1 .. MaxBalance
OptionalAmounts == {undefined} \cup {<<x>> : x \in SignedAmounts}

\* the agent's keypair, and the values SPONSOR_PRIVATE_KEY can have in the
\* environment: unset, empty, blank, a key, a key with blanks around it
AgentKeypair == fromSecretKey(<<"a">>)

SetKeys == {<<"k">>, <<" ", "k", "\n">>}

BlankKeys == {<< >>, <<" ">>, <<" ", "\t">>}

Envs == [SPONSOR_PRIVATE_KEY : {undefined} \cup {<<key>> : key \in SetKeys \cup BlankKeys}]

\* a transaction block that holds one agent_withdraw call, and its digest
Transaction(vault_id, cap_id) ==
    [command |-> <<"agent_withdraw", vault_id, cap_id>>, sender |-> undefined,
     gasOwner |-> undefined]

Transactions == {Transaction(1, cap_id) : cap_id \in {2, 3}}

Digest(transaction) == <<"digest", transaction.command>>

\* how the execution of the transaction can end on the ledger
LedgerResults ==
    {Success, ArithmeticError}
       \cup {Abort(code) : code \in {E_NOT_OWNER, E_BUDGET_EXCEEDED, E_NOT_WHITELISTED,
                                     E_EXPIRED, E_COOLDOWN, E_INVALID_CAP,
                                     E_INSUFFICIENT_BALANCE, E_PER_TX_EXCEEDED,
                                     E_ZERO_AMOUNT}}

\* what the client can settle with for a transaction whose execution on the
\* ledger ended as `result`: the effects with the status and, for a failure,
\* the error text or none; a response that lacks the inner status, the status
\* or the effects; or a rejection of the request itself
ErrorText(result) ==
    IF result.status = "abort" THEN "MoveAbort" ELSE "ArithmeticError"

Response(digest, effects) == [digest |-> digest, effects |-> effects]

ClientReplies(result, digest) ==
    {Resolved(Response(digest, <<[status |-> <<[status |-> status, error |-> error]>>]>>)) :
         status \in {IF result = Success THEN <<"success">> ELSE <<"failure">>, undefined},
         error \in IF result = Success THEN {undefined}
                   ELSE {undefined, <<ErrorText(result)>>}}
       \cup {Resolved(Response(digest, <<[status |-> undefined]>>)),
             Resolved(Response(digest, undefined)),
             Rejected(<<"request failed">>)}

call_checkPolicy(vault, actionType, nowMs, amount) ==
    /\ sdk.fn = "none"
    /\ sdk' = [fn |-> "checkPolicy", vault |-> vault, actionType |-> actionType,
               nowMs |-> nowMs, amount |-> amount,
               returned |-> checkPolicy(vault, actionType, nowMs, amount)]
    /\ UNCHANGED ledger

call_executeAgentTransaction(transaction, result, reply) ==
    /\ sdk.fn = "none"
    /\ sdk' = [fn |-> "executeAgentTransaction", transaction |-> transaction,
               result |-> result, reply |-> reply,
               run |-> executeAgentTransaction(transaction, AgentKeypair, reply)]
    /\ UNCHANGED ledger

call_executeSponsoredAgentTransaction(env, transaction, result, reply) ==
    /\ sdk.fn = "none"
    /\ sdk' = [fn |-> "executeSponsoredAgentTransaction", env |-> env,
               transaction |-> transaction, result |-> result, reply |-> reply,
               run |-> executeSponsoredAgentTransaction(env, transaction, AgentKeypair, reply)]
    /\ UNCHANGED ledger

SdkNext ==
    \/ \E vault \in Snapshots, actionType \in ActionTypes \cup {Cardinality(ActionTypes)}, nowMs \in NowValues, amount \in OptionalAmounts :
          call_checkPolicy(vault, actionType, nowMs, amount)
    \/ \E transaction \in Transactions, result \in LedgerResults :
          \E reply \in ClientReplies(result, Digest(transaction)) :
             call_executeAgentTransaction(transaction, result, reply)
    \/ \E env \in Envs, transaction \in Transactions, result \in LedgerResults :
          \E reply \in ClientReplies(result, Digest(transaction)) :
             call_executeSponsoredAgentTransaction(env, transaction, result, reply)

SdkSpec == Init /\ [][SdkNext]_vars

-----------------------------------------------------------------------------
(* Inputs the properties below range over *)

Amounts == 0 .. MaxBalance

\* the result of agent_withdraw, were it called now
WouldWithdraw(v, c, amount, action_type) ==
    agent_withdraw_result(vaults[v], v, agent_caps[c], c, amount, action_type, clock)

\* the verdict of the mirror on the snapshot of the live vault, at the ledger's time
WouldCheck(v, action_type, amount) ==
    checkPolicy(parseVaultData(v, vaults[v]), action_type, clock, amount)

Authorized(v, c) ==
    agent_caps[c].vault_id = v /\ contains(vaults[v].authorized_caps, c)

\* this step is the transaction agent_withdraw(v, c, amount, action_type)
WithdrawStep(v, c, amount, action_type) ==
    /\ last'.op = "agent_withdraw"
    /\ last'.vault = v
    /\ last'.cap = c
    /\ agent_withdraw(v, c, amount, action_type)

\* the optional amount of checkPolicy: omitted, or any amount
OptAmounts == {<<>>} \cup {<<x>> : x \in Amounts}

\* the checks of agent_withdraw that do not look at the amount
OtherChecksPass(v, c, action_type) ==
    /\ Authorized(v, c)
    /\ clock < vaults[v].policy.expires_at
    /\ (vaults[v].tx_count > 0 =>
           clock - vaults[v].last_tx_time >= vaults[v].policy.cooldown_ms)
    /\ contains(vaults[v].policy.allowed_actions, action_type)

OwnerOps ==
    {"deposit", "withdraw", "withdraw_all", "reset_counters", "update_policy",
     "create_agent_cap", "revoke_agent_cap"}

\* this step is a transaction of the owner-only operation op
OwnerStep(op) ==
    last'.op = op /\ clock' = clock /\ vars' # vars

\* the sum of the amounts of a sequence of recorded withdrawals
SumOfAmounts(withdrawals) ==
    LET sum[i \in 0 .. Len(withdrawals)] ==
            IF i = 0 THEN 0 ELSE sum[i - 1] + withdrawals[i].amount
    IN sum[Len(withdrawals)]

\* the reasons of a denial, and the verdicts checkPolicy can return
DenialReasons ==
    {"Policy has expired", "Cooldown active", "is not whitelisted",
     "Amount must be greater than zero", "exceeds per-tx limit",
     "exceeds remaining budget", "Insufficient vault balance"}

Verdicts ==
    [allowed : {FALSE}, reason : DenialReasons]
       \cup {[allowed |-> TRUE, reason |-> "Policy check passed"]}

\* this step is an agent_withdraw transaction: the only other steps that leave
\* "agent_withdraw" in last are the clock's
AgentWithdrawStep ==
    last'.op = "agent_withdraw" /\ clock' = clock /\ vars' # vars

\* checks 1..6 of the enforcement algorithm, as the specification words them
PassesUpToPerTx(v, c, amount) ==
    /\ amount > 0
    /\ Authorized(v, c)
    /\ clock < vaults[v].policy.expires_at
    /\ (vaults[v].tx_count > 0 =>
           clock - vaults[v].last_tx_time >= vaults[v].policy.cooldown_ms)
    /\ amount <= vaults[v].policy.max_per_tx

(* A state predicate P that reads only some of the variables is stated inside *)
(* an action formula as  UNCHANGED <<those variables>> \/ P' : it is examined  *)
(* after every step that can change its value.                                *)

-----------------------------------------------------------------------------
\* C1: in every reachable state of every vault, total_spent <= policy.max_budget.
C1_TotalSpentWithinBudget ==
    \A v \in VaultIds : vaults[v].total_spent <= vaults[v].policy.max_budget

-----------------------------------------------------------------------------
\* C2: every agent_withdraw step keeps total_spent <= max_budget, and an
\* agent_withdraw that passes the zero-amount, capability, expiry, cooldown and
\* per-transaction checks with amount > max_budget - total_spent is rejected
\* with BudgetExceeded (abort code 1) and changes nothing.
C2_BudgetExceededRejected ==
    [][\A v \in VaultIds, c \in AgentCapIds, amount \in Amounts, a \in ActionTypes :
          WithdrawStep(v, c, amount, a) =>
             /\ vaults[v].total_spent <= vaults[v].policy.max_budget
                   => vaults'[v].total_spent <= vaults'[v].policy.max_budget
             /\ (/\ PassesUpToPerTx(v, c, amount)
                 /\ amount > vaults[v].policy.max_budget - vaults[v].total_spent)
                   => /\ last'.result = Abort(E_BUDGET_EXCEEDED)
                      /\ vaults' = vaults]_vars

-----------------------------------------------------------------------------
\* C3: a failing agent_withdraw reports the failure kind of the first check that
\* fails, in the order ZeroAmount, InvalidCapability (binding), InvalidCapability
\* (registry), Expired, CooldownActive, PerOperationLimitExceeded, BudgetExceeded,
\* ActionNotWhitelisted, InsufficientBalance.
C3_FirstFailingCheck(v, c, amount, action_type) ==
    IF ~(amount > 0) THEN Abort(E_ZERO_AMOUNT)
    ELSE IF agent_caps[c].vault_id # v THEN Abort(E_INVALID_CAP)
    ELSE IF ~contains(vaults[v].authorized_caps, c) THEN Abort(E_INVALID_CAP)
    ELSE IF ~(clock < vaults[v].policy.expires_at) THEN Abort(E_EXPIRED)
    ELSE IF vaults[v].tx_count > 0
            /\ ~(clock - vaults[v].last_tx_time >= vaults[v].policy.cooldown_ms)
         THEN Abort(E_COOLDOWN)
    ELSE IF ~(amount <= vaults[v].policy.max_per_tx) THEN Abort(E_PER_TX_EXCEEDED)
    ELSE IF ~(amount <= vaults[v].policy.max_budget - vaults[v].total_spent)
         THEN Abort(E_BUDGET_EXCEEDED)
    ELSE IF ~contains(vaults[v].policy.allowed_actions, action_type)
         THEN Abort(E_NOT_WHITELISTED)
    ELSE IF ~(amount <= vaults[v].balance_sui) THEN Abort(E_INSUFFICIENT_BALANCE)
    ELSE Success

C3_FailureKindInOrder ==
    \A v \in VaultIds, c \in AgentCapIds, amount \in Amounts, a \in ActionTypes :
        WouldWithdraw(v, c, amount, a) = C3_FirstFailingCheck(v, c, amount, a)

-----------------------------------------------------------------------------
\* C4: a successful agent_withdraw(amount, action, now) takes amount from the
\* balance, adds it to total_spent, adds one to tx_count, sets last_tx_time to
\* now, returns a coin of value amount, and leaves owner, policy and
\* authorized_caps (and every other vault) unchanged.
C4_WithdrawEffect ==
    [][(AgentWithdrawStep /\ last'.result = Success) =>
          LET v == last'.vault
              amount == hist'[v][Len(hist'[v])].amount
          IN /\ vaults'[v].balance_sui = vaults[v].balance_sui - amount
             /\ vaults'[v].total_spent = vaults[v].total_spent + amount
             /\ vaults'[v].tx_count = vaults[v].tx_count + 1
             /\ vaults'[v].last_tx_time = clock
             /\ last'.coin = amount
             /\ vaults'[v].owner = vaults[v].owner
             /\ vaults'[v].policy = vaults[v].policy
             /\ vaults'[v].authorized_caps = vaults[v].authorized_caps
             /\ \A w \in VaultIds \ {v} : vaults'[w] = vaults[w]]_vars

C4_Witness ==
    /\ last.op = "agent_withdraw"
    /\ last.result = Success
    /\ last.coin > 0
    /\ vaults[last.vault].tx_count = 1
    /\ vaults[last.vault].last_tx_time > 0

-----------------------------------------------------------------------------
\* C5: an operation that fails a check changes no vault field and no
\* capability, returns no coin and emits no event; and an agent_withdraw step
\* applies its four-field update whole or not at all.
C5_FailureChangesNothing ==
    [][/\ last'.result # Success =>
             /\ UNCHANGED <<vaults, owner_caps, agent_caps>>
             /\ last'.coin = 0
             /\ last'.emitted = NoEvents
       /\ AgentWithdrawStep =>
             LET v == last'.vault
                 amount == vaults[v].balance_sui - vaults'[v].balance_sui
             IN \/ vaults' = vaults
                \/ /\ amount > 0
                   /\ vaults'[v].total_spent = vaults[v].total_spent + amount
                   /\ vaults'[v].tx_count = vaults[v].tx_count + 1
                   /\ vaults'[v].last_tx_time = clock]_vars

C5_Witness ==
    /\ last.op = "agent_withdraw"
    /\ last.result = Abort(E_INSUFFICIENT_BALANCE)
    /\ last.coin = 0

-----------------------------------------------------------------------------
\* C6: on the snapshot of the live vault and at the ledger's time, for a
\* capability that is bound to the vault and authorized, checkPolicy allows a
\* supplied amount and action exactly when agent_withdraw with them succeeds.
C6_MirrorAgrees ==
    \A v \in VaultIds, c \in AgentCapIds, amount \in Amounts, a \in ActionTypes :
        Authorized(v, c) =>
            (WouldCheck(v, a, <<amount>>).allowed
                <=> WouldWithdraw(v, c, amount, a) = Success)

C6_Witness ==
    \E v \in VaultIds, c \in AgentCapIds :
        /\ Authorized(v, c)
        /\ last.op = "agent_withdraw"
        /\ last.result = Success
        /\ \E amount \in Amounts, a \in ActionTypes :
              WouldCheck(v, a, <<amount>>).allowed
        /\ \E amount \in Amounts, a \in ActionTypes :
              /\ ~WouldCheck(v, a, <<amount>>).allowed
              /\ WouldWithdraw(v, c, amount, a) = Abort(E_BUDGET_EXCEEDED)

-----------------------------------------------------------------------------
\* C7: once revoke_agent_cap has succeeded for a capability, every
\* agent_withdraw presenting it with amount > 0 fails with InvalidCapability
\* (abort code 5), at every vault, action and time and after any further
\* operations; and no agent_withdraw commits with a capability that is not in
\* the registry of its vault when it commits.
C7_RevokedRejected ==
    \A c \in revoked \cap AgentCapIds, v \in VaultIds,
       amount \in Amounts \ {0}, a \in ActionTypes :
        WouldWithdraw(v, c, amount, a) = Abort(E_INVALID_CAP)

C7_RevokedCapFails ==
    [][/\ UNCHANGED <<vaults, agent_caps, revoked, clock>> \/ C7_RevokedRejected'
       /\ (AgentWithdrawStep /\ last'.result = Success) =>
             /\ contains(vaults[last'.vault].authorized_caps, last'.cap)
             /\ last'.cap \notin revoked]_vars

C7_Witness ==
    /\ last.op = "agent_withdraw"
    /\ last.cap \in revoked
    /\ last.result = Abort(E_INVALID_CAP)
    /\ vaults[last.vault].policy.expires_at > clock

-----------------------------------------------------------------------------
\* C8: an identifier that revoke_agent_cap has removed is in no vault's
\* authorized_caps in any later state, whatever operations follow (mints
\* included).
C8_RevocationPermanent ==
    \A v \in VaultIds, c \in revoked : ~contains(vaults[v].authorized_caps, c)

C8_Witness ==
    /\ revoked # {}
    /\ last.op = "create_agent_cap"
    /\ last.result = Success
    /\ vaults[last.vault].authorized_caps # <<>>

-----------------------------------------------------------------------------
\* C9: while tx_count = 0 (after create_vault or reset_counters) no
\* agent_withdraw fails with CooldownActive, and checkPolicy does not deny for
\* the cooldown, whatever cooldown_ms and now are.
C9_FirstWithdrawNoCooldown ==
    \A v \in VaultIds :
        vaults[v].tx_count = 0 =>
            \A a \in ActionTypes :
                /\ \A c \in AgentCapIds, amount \in Amounts :
                      WouldWithdraw(v, c, amount, a) # Abort(E_COOLDOWN)
                /\ \A amount \in {<<>>} \cup {<<x>> : x \in Amounts} :
                      WouldCheck(v, a, amount).reason # "Cooldown active"

C9_Witness ==
    /\ last.op = "agent_withdraw"
    /\ last.result = Success
    /\ Len(hist[last.vault]) = 1
    /\ clock - 0 < vaults[last.vault].policy.cooldown_ms

-----------------------------------------------------------------------------
\* C10: two consecutive successful agent_withdraw calls with no reset_counters
\* between them are at least cooldown_ms (of the policy in force at the second)
\* apart; with the earlier checks passing and tx_count > 0, an attempt at
\* elapsed time exactly cooldown_ms does not fail with CooldownActive and one at
\* cooldown_ms - 1 fails with CooldownActive (abort code 4).
C10_Boundary ==
    \A v \in VaultIds :
        LET elapsed == clock - vaults[v].last_tx_time
            cooldown_ms == vaults[v].policy.cooldown_ms
        IN (/\ vaults[v].tx_count > 0
            /\ clock < vaults[v].policy.expires_at
            /\ elapsed \in {cooldown_ms, cooldown_ms - 1}) =>
              \A c \in AgentCapIds :
                 Authorized(v, c) =>
                    \A amount \in Amounts \ {0}, a \in ActionTypes :
                       IF elapsed = cooldown_ms
                       THEN WouldWithdraw(v, c, amount, a) # Abort(E_COOLDOWN)
                       ELSE WouldWithdraw(v, c, amount, a) = Abort(E_COOLDOWN)

C10_CooldownSpacing ==
    [][/\ UNCHANGED <<vaults, agent_caps, clock>> \/ C10_Boundary'
       /\ (AgentWithdrawStep /\ last'.result = Success
              /\ hist[last'.vault] # <<>>) =>
             clock - hist[last'.vault][Len(hist[last'.vault])].time
                >= vaults[last'.vault].policy.cooldown_ms]_vars

C10_Witness ==
    /\ last.op = "agent_withdraw"
    /\ last.result = Success
    /\ Len(hist[last.vault]) = 2
    /\ vaults[last.vault].policy.cooldown_ms = 1
    /\ hist[last.vault][2].time - hist[last.vault][1].time = 1

-----------------------------------------------------------------------------
\* C11: no agent_withdraw succeeds at now >= expires_at of the policy in force;
\* with amount > 0 and a bound, authorized capability the call is rejected with
\* Expired (abort code 3) exactly when now >= expires_at (so at now = expires_at
\* and not at expires_at - 1); checkPolicy gives its 'expired' reason exactly
\* when nowMs >= expiresAt.
C11_ExpiryStrict ==
    \A v \in VaultIds, a \in ActionTypes :
        LET expired == clock >= vaults[v].policy.expires_at
        IN /\ \A amount \in OptAmounts :
                 WouldCheck(v, a, amount).reason = "Policy has expired" <=> expired
           /\ \A c \in AgentCapIds, amount \in Amounts :
                 /\ expired => WouldWithdraw(v, c, amount, a) # Success
                 /\ (amount > 0 /\ Authorized(v, c)) =>
                       (WouldWithdraw(v, c, amount, a) = Abort(E_EXPIRED) <=> expired)

C11_Witness ==
    /\ last.op = "agent_withdraw"
    /\ last.result = Abort(E_EXPIRED)
    /\ clock = vaults[last.vault].policy.expires_at
    /\ Authorized(last.vault, last.cap)

-----------------------------------------------------------------------------
\* C12: the three amount bounds are inclusive in agent_withdraw and in
\* checkPolicy: with every other check passing, an amount equal to max_per_tx,
\* to max_budget - total_spent or to the balance (and within the other two) is
\* allowed, and an amount one above one bound (and within the other two) is
\* rejected with PerOperationLimitExceeded, BudgetExceeded or
\* InsufficientBalance respectively.
C12_InclusiveBounds ==
    \A v \in VaultIds, c \in AgentCapIds, a \in ActionTypes, amount \in Amounts \ {0} :
        OtherChecksPass(v, c, a) =>
            LET per == vaults[v].policy.max_per_tx
                rem == vaults[v].policy.max_budget - vaults[v].total_spent
                bal == vaults[v].balance_sui
                contract == WouldWithdraw(v, c, amount, a)
                mirror == WouldCheck(v, a, <<amount>>)
            IN /\ (amount \in {per, rem, bal} /\ amount <= per /\ amount <= rem
                      /\ amount <= bal) =>
                     (contract = Success /\ mirror.allowed)
               /\ (amount = per + 1 /\ amount <= rem /\ amount <= bal) =>
                     /\ contract = Abort(E_PER_TX_EXCEEDED)
                     /\ mirror = PolicyCheckResult(FALSE, "exceeds per-tx limit")
               /\ (amount <= per /\ amount = rem + 1 /\ amount <= bal) =>
                     /\ contract = Abort(E_BUDGET_EXCEEDED)
                     /\ mirror = PolicyCheckResult(FALSE, "exceeds remaining budget")
               /\ (amount <= per /\ amount <= rem /\ amount = bal + 1) =>
                     /\ contract = Abort(E_INSUFFICIENT_BALANCE)
                     /\ mirror = PolicyCheckResult(FALSE, "Insufficient vault balance")

C12_Witness ==
    /\ last.op = "agent_withdraw"
    /\ last.result = Success
    /\ last.coin = vaults[last.vault].policy.max_per_tx
    /\ vaults[last.vault].tx_count = 1
    /\ vaults[last.vault].total_spent = vaults[last.vault].policy.max_budget
    /\ vaults[last.vault].total_spent = last.coin
    /\ vaults[last.vault].balance_sui = 0

-----------------------------------------------------------------------------
\* C13 (as stated): no agent_withdraw succeeds with an action tag outside
\* allowed_actions; with an empty allowed_actions every agent_withdraw fails and
\* checkPolicy denies every action tag with the 'not whitelisted' reason.
C13_EmptyWhitelistReason ==
    \A v \in VaultIds, a \in ActionTypes :
        /\ ~contains(vaults[v].policy.allowed_actions, a) =>
              \A c \in AgentCapIds, amount \in Amounts :
                 WouldWithdraw(v, c, amount, a) # Success
        /\ vaults[v].policy.allowed_actions = <<>> =>
              /\ \A c \in AgentCapIds, amount \in Amounts :
                    WouldWithdraw(v, c, amount, a) # Success
              /\ \A amount \in OptAmounts :
                    WouldCheck(v, a, amount)
                       = PolicyCheckResult(FALSE, "is not whitelisted")

\* C13 (amended): no agent_withdraw succeeds with an action tag outside
\* allowed_actions, and one that passes every check before the whitelist fails
\* with ActionNotWhitelisted (abort code 2); checkPolicy denies every such tag,
\* with the 'not whitelisted' reason when the policy has not expired and no
\* cooldown is active, and with the reason of the expiry or cooldown check
\* otherwise; an empty allowed_actions makes this so for every tag.
C13_WhitelistEnforced ==
    \A v \in VaultIds, a \in ActionTypes :
        ~contains(vaults[v].policy.allowed_actions, a) =>
            LET live == /\ clock < vaults[v].policy.expires_at
                        /\ (vaults[v].tx_count > 0 =>
                               clock - vaults[v].last_tx_time
                                  >= vaults[v].policy.cooldown_ms)
            IN /\ \A c \in AgentCapIds, amount \in Amounts :
                     /\ WouldWithdraw(v, c, amount, a) # Success
                     /\ (PassesUpToPerTx(v, c, amount)
                            /\ amount <= vaults[v].policy.max_budget
                                            - vaults[v].total_spent) =>
                           WouldWithdraw(v, c, amount, a) = Abort(E_NOT_WHITELISTED)
               /\ \A amount \in OptAmounts :
                     /\ ~WouldCheck(v, a, amount).allowed
                     /\ live => WouldCheck(v, a, amount).reason = "is not whitelisted"
                     /\ ~live => WouldCheck(v, a, amount).reason
                                    \in {"Policy has expired", "Cooldown active"}

C13_Witness ==
    /\ last.op = "agent_withdraw"
    /\ last.result = Abort(E_NOT_WHITELISTED)
    /\ ~WouldCheck(last.vault, 1, <<1>>).allowed

-----------------------------------------------------------------------------
\* C14: each owner-only operation called on vault V with an OwnerCap bound to
\* another vault fails with NotOwner (abort code 0) whatever its other
\* arguments are (so before any other check) and changes nothing; an owner
\* operation changes a vault only when the capability presented is bound to it.
\* (The outcomes depend on vaults, owner_caps and next_id alone and are examined
\* after every step that changes one of them; there is no vault initially.)
C14_MismatchRejected ==
    \A v \in VaultIds, oc \in OwnerCapIds :
        owner_caps[oc].vault_id # v =>
            /\ deposit_result(v, owner_caps[oc]) = Abort(E_NOT_OWNER)
            /\ withdraw_all_result(v, owner_caps[oc]) = Abort(E_NOT_OWNER)
            /\ \A amount \in Amounts :
                  withdraw_result(vaults[v], v, owner_caps[oc], amount)
                     = Abort(E_NOT_OWNER)
            /\ reset_counters_result(v, owner_caps[oc]) = Abort(E_NOT_OWNER)
            /\ update_policy_result(v, owner_caps[oc]) = Abort(E_NOT_OWNER)
            /\ create_agent_cap_result(v, owner_caps[oc]) = Abort(E_NOT_OWNER)
            /\ \A c \in ObjectIds :
                  revoke_agent_cap_result(vaults[v], v, owner_caps[oc], c)
                     = Abort(E_NOT_OWNER)

C14_NotOwner ==
    [][/\ UNCHANGED <<vaults, owner_caps, next_id>> \/ C14_MismatchRejected'
       /\ (last'.op \in OwnerOps /\ OwnerStep(last'.op)) =>
                /\ owner_caps[last'.cap].vault_id # last'.vault =>
                      /\ last'.result = Abort(E_NOT_OWNER)
                      /\ UNCHANGED <<vaults, owner_caps, agent_caps, revoked, hist>>
                /\ \A v \in VaultIds :
                      vaults'[v] # vaults[v] => owner_caps[last'.cap].vault_id = v]_vars

C14_Witness ==
    /\ last.op = "withdraw"
    /\ last.result = Abort(E_NOT_OWNER)
    /\ owner_caps[last.cap].vault_id # last.vault
    /\ Cardinality(VaultIds) = 2
    /\ vaults[last.vault].balance_sui = 0

-----------------------------------------------------------------------------
\* C15: while max_budget is below total_spent (after update_policy, until a
\* reset_counters or another update_policy), every agent_withdraw fails: it
\* returns no coin, changes no field and emits nothing; the subtraction
\* max_budget - total_spent aborts the call when it is reached and never yields
\* a remaining budget that lets an amount through; checkPolicy, whose remaining
\* budget is negative, denies every supplied amount.
C15_OverspentRejected ==
    \A v \in VaultIds :
        vaults[v].policy.max_budget < vaults[v].total_spent =>
            \A c \in AgentCapIds, amount \in Amounts, a \in ActionTypes :
               /\ WouldWithdraw(v, c, amount, a) # Success
               /\ PassesUpToPerTx(v, c, amount) =>
                     WouldWithdraw(v, c, amount, a) = ArithmeticError
               /\ ~WouldCheck(v, a, <<amount>>).allowed

C15_UnderflowFailsSafely ==
    [][/\ UNCHANGED <<vaults, agent_caps, clock>> \/ C15_OverspentRejected'
       /\ (AgentWithdrawStep
              /\ vaults[last'.vault].policy.max_budget
                    < vaults[last'.vault].total_spent) =>
             /\ last'.result # Success
             /\ last'.coin = 0
             /\ last'.emitted = NoEvents
             /\ UNCHANGED <<vaults, owner_caps, agent_caps, hist>>]_vars

C15_Witness ==
    /\ last.op = "agent_withdraw"
    /\ last.result = ArithmeticError
    /\ vaults[last.vault].policy.max_budget < vaults[last.vault].total_spent
    /\ vaults[last.vault].balance_sui > 0

-----------------------------------------------------------------------------
\* C16: total_spent is the sum of the amounts, and tx_count the number, of the
\* successful agent_withdraw calls since the later of the vault's creation and
\* its last reset_counters; last_tx_time is the time of the latest of them, or 0
\* when there is none; owner operations other than reset_counters leave the
\* three fields as they are.  (The equalities are examined after every step
\* that changes a vault or a history; there is no vault initially.)
C16_CountersMatchHistory ==
    \A v \in VaultIds :
        /\ vaults[v].total_spent = SumOfAmounts(hist[v])
        /\ vaults[v].tx_count = Len(hist[v])
        /\ vaults[v].last_tx_time =
              IF hist[v] = <<>> THEN 0 ELSE hist[v][Len(hist[v])].time

C16_CountersAccount ==
    [][/\ UNCHANGED <<vaults, hist>> \/ C16_CountersMatchHistory'
       /\ (last'.op \in OwnerOps \ {"reset_counters"} /\ OwnerStep(last'.op)) =>
                \A v \in VaultIds :
                   /\ vaults'[v].total_spent = vaults[v].total_spent
                   /\ vaults'[v].tx_count = vaults[v].tx_count
                   /\ vaults'[v].last_tx_time = vaults[v].last_tx_time]_vars

C16_Witness ==
    /\ last.op = "withdraw"
    /\ last.result = Success
    /\ last.coin > 0
    /\ Len(hist[last.vault]) = 1
    /\ vaults[last.vault].total_spent = hist[last.vault][1].amount
    /\ vaults[last.vault].tx_count = 1

-----------------------------------------------------------------------------
\* C17: withdraw_all with the vault's own OwnerCap succeeds in every reachable
\* state (empty balance, expired or exhausted policy included): it returns a
\* coin of the whole prior balance, leaves the balance 0 and changes nothing
\* else.
C17_MatchingCapSucceeds ==
    \A v \in VaultIds, oc \in OwnerCapIds :
        owner_caps[oc].vault_id = v =>
            withdraw_all_result(v, owner_caps[oc]) = Success

C17_WithdrawAllDrains ==
    [][/\ C17_MatchingCapSucceeds'
       /\ (OwnerStep("withdraw_all")
              /\ owner_caps[last'.cap].vault_id = last'.vault) =>
             LET v == last'.vault
             IN /\ last'.result = Success
                /\ last'.coin = vaults[v].balance_sui
                /\ vaults'[v] = [vaults[v] EXCEPT !.balance_sui = 0]
                /\ \A w \in VaultIds \ {v} : vaults'[w] = vaults[w]
                /\ UNCHANGED <<owner_caps, agent_caps>>]_vars

C17_Witness ==
    /\ last.op = "withdraw_all"
    /\ last.result = Success
    /\ last.coin = 0
    /\ clock >= vaults[last.vault].policy.expires_at
    /\ vaults[last.vault].balance_sui = 0

-----------------------------------------------------------------------------
\* C18: owner withdraw(amount) with the vault's own OwnerCap fails with
\* ZeroAmount when amount = 0 and with InsufficientBalance when amount exceeds
\* the balance, and succeeds otherwise whatever the policy says; a successful
\* one returns exactly amount, takes it from the balance and leaves total_spent,
\* tx_count, last_tx_time (and every other field) unchanged.  (The outcome
\* depends on vaults and owner_caps alone and is examined after every step that
\* changes one of them; there is no vault initially.)
C18_WithdrawOutcome ==
    \A v \in VaultIds, oc \in OwnerCapIds, amount \in Amounts :
        owner_caps[oc].vault_id = v =>
            withdraw_result(vaults[v], v, owner_caps[oc], amount) =
                IF amount = 0 THEN Abort(E_ZERO_AMOUNT)
                ELSE IF amount > vaults[v].balance_sui
                     THEN Abort(E_INSUFFICIENT_BALANCE)
                     ELSE Success

C18_OwnerWithdraw ==
    [][/\ UNCHANGED <<vaults, owner_caps>> \/ C18_WithdrawOutcome'
       /\ (OwnerStep("withdraw") /\ last'.result = Success) =>
             LET v == last'.vault
             IN \A amount \in Amounts :
                   withdraw(v, last'.cap, amount) =>
                      /\ last'.coin = amount
                      /\ vaults'[v] = [vaults[v] EXCEPT !.balance_sui = @ - amount]
                      /\ \A w \in VaultIds \ {v} : vaults'[w] = vaults[w]]_vars

C18_Witness ==
    /\ last.op = "withdraw"
    /\ last.result = Success
    /\ last.coin > vaults[last.vault].policy.max_budget
    /\ vaults[last.vault].policy.allowed_actions = <<>>
    /\ clock >= vaults[last.vault].policy.expires_at
    /\ vaults[last.vault].total_spent = 0

-----------------------------------------------------------------------------
\* C19: update_policy with the vault's own OwnerCap succeeds whatever the new
\* values are, replaces the five policy fields by its arguments in one step and
\* leaves balance, owner, authorized_caps, total_spent, last_tx_time and
\* tx_count unchanged; an agent_withdraw in the state it leaves is decided by
\* the new policy alone.
C19_MatchingCapSucceeds ==
    \A v \in VaultIds, oc \in OwnerCapIds :
        owner_caps[oc].vault_id = v =>
            update_policy_result(v, owner_caps[oc]) = Success

C19_PolicyReplaced ==
    [][/\ C19_MatchingCapSucceeds'
       /\ (OwnerStep("update_policy")
              /\ owner_caps[last'.cap].vault_id = last'.vault) =>
             LET v == last'.vault
             IN /\ last'.result = Success
                /\ \A p \in PolicyChoices :
                      update_policy(v, last'.cap, p) =>
                         /\ vaults'[v] = [vaults[v] EXCEPT !.policy = p]
                         /\ \A w \in VaultIds \ {v} : vaults'[w] = vaults[w]
                         /\ UNCHANGED <<owner_caps, agent_caps, hist>>
                         /\ \A c \in AgentCapIds, amount \in Amounts, a \in ActionTypes :
                               agent_withdraw_result(vaults'[v], v, agent_caps'[c],
                                                     c, amount, a, clock') =
                                  agent_withdraw_result(
                                     [vaults[v] EXCEPT !.policy = p], v,
                                     agent_caps[c], c, amount, a, clock)]_vars

C19_Witness ==
    /\ last.op = "update_policy"
    /\ last.result = Success
    /\ vaults[last.vault].policy.max_budget < vaults[last.vault].total_spent
    /\ vaults[last.vault].policy.allowed_actions = <<>>
    /\ vaults[last.vault].authorized_caps # <<>>
    /\ vaults[last.vault].tx_count = 1

-----------------------------------------------------------------------------
\* C20: reset_counters with the vault's own OwnerCap succeeds, sets total_spent,
\* tx_count and last_tx_time to 0 and leaves balance, owner, policy and
\* authorized_caps unchanged; in the state it leaves the whole max_budget is
\* available to agent_withdraw: no amount up to max_budget is refused for the
\* budget, and one above it that passes the earlier checks is.
C20_MatchingCapSucceeds ==
    \A v \in VaultIds, oc \in OwnerCapIds :
        owner_caps[oc].vault_id = v =>
            reset_counters_result(v, owner_caps[oc]) = Success

C20_CountersReset ==
    [][/\ C20_MatchingCapSucceeds'
       /\ (OwnerStep("reset_counters")
              /\ owner_caps[last'.cap].vault_id = last'.vault) =>
             LET v == last'.vault
             IN /\ last'.result = Success
                /\ vaults'[v] = [vaults[v] EXCEPT !.total_spent = 0,
                                                  !.tx_count = 0,
                                                  !.last_tx_time = 0]
                /\ \A w \in VaultIds \ {v} : vaults'[w] = vaults[w]
                /\ UNCHANGED <<owner_caps, agent_caps>>
                /\ \A c \in AgentCapIds, amount \in Amounts \ {0}, a \in ActionTypes :
                      LET after == agent_withdraw_result(vaults'[v], v, agent_caps'[c],
                                                         c, amount, a, clock')
                          budget == vaults[v].policy.max_budget
                      IN /\ amount <= budget =>
                               after \notin {Abort(E_BUDGET_EXCEEDED), ArithmeticError,
                                             Abort(E_COOLDOWN)}
                         /\ (amount > budget /\ amount <= vaults[v].policy.max_per_tx
                                /\ Authorized(v, c)
                                /\ clock < vaults[v].policy.expires_at) =>
                               after = Abort(E_BUDGET_EXCEEDED)]_vars

C20_Witness ==
    /\ last.op = "reset_counters"
    /\ last.result = Success
    /\ vaults[last.vault].total_spent = 0
    /\ vaults[last.vault].policy.max_budget > 0
    /\ \E c \in AgentCapIds, a \in ActionTypes :
          WouldWithdraw(last.vault, c, vaults[last.vault].policy.max_budget, a) = Success

-----------------------------------------------------------------------------
\* C21: a successful create_agent_cap appends the identifier of a new
\* capability, bound to the vault and handed to the named recipient, to
\* authorized_caps and removes none; several capabilities can be authorized at
\* once; a successful revoke_agent_cap(c) removes c alone: every other
\* capability stays authorized and agent_withdraw with it is decided as before.
C21_CapsIndependent ==
    [][/\ (OwnerStep("create_agent_cap") /\ last'.result = Success) =>
             LET v == last'.vault
                 cap_id == next_id
             IN \A agent_address \in AgentAddresses :
                   create_agent_cap(v, last'.cap, agent_address) =>
                      /\ cap_id \notin DOMAIN agent_caps
                      /\ vaults'[v] = [vaults[v] EXCEPT !.authorized_caps =
                                          Append(@, cap_id)]
                      /\ \A c \in AgentCapIds : Authorized(v, c) =>
                            contains(vaults'[v].authorized_caps, c)
                      /\ agent_caps' = agent_caps @@
                            (cap_id :> [vault_id |-> v, holder |-> agent_address])
                      /\ \A w \in VaultIds \ {v} : vaults'[w] = vaults[w]
       /\ (OwnerStep("revoke_agent_cap") /\ last'.result = Success) =>
             LET v == last'.vault
             IN \A c \in ObjectIds :
                   revoke_agent_cap(v, last'.cap, c) =>
                      /\ contains(vaults[v].authorized_caps, c)
                      /\ ~contains(vaults'[v].authorized_caps, c)
                      /\ Len(vaults'[v].authorized_caps)
                            = Len(vaults[v].authorized_caps) - 1
                      /\ agent_caps' = agent_caps
                      /\ \A w \in VaultIds \ {v} : vaults'[w] = vaults[w]
                      /\ \A d \in AgentCapIds \ {c} :
                            /\ contains(vaults'[v].authorized_caps, d)
                                  <=> contains(vaults[v].authorized_caps, d)
                            /\ \A amount \in Amounts, a \in ActionTypes :
                                  agent_withdraw_result(vaults'[v], v, agent_caps'[d],
                                                        d, amount, a, clock')
                                     = WouldWithdraw(v, d, amount, a)]_vars

C21_Witness ==
    /\ last.op = "revoke_agent_cap"
    /\ last.result = Success
    /\ Len(vaults[last.vault].authorized_caps) = 1
    /\ \E d \in AgentCapIds \ revoked, a \in ActionTypes :
          /\ d < last.emitted[1].cap_id
          /\ WouldWithdraw(last.vault, d, 1, a) = Success

-----------------------------------------------------------------------------
\* C22: revoke_agent_cap with the vault's own OwnerCap fails with
\* InvalidCapability (abort code 5) and changes nothing whenever the identifier
\* given is not in authorized_caps at the time: already revoked, never the
\* identifier of an agent capability, or that of a capability of another vault.
\* (A revoke_agent_cap step with the vault's own OwnerCap succeeds only on an
\* identifier that was in authorized_caps, the one its event names, and a
\* failing one has code 5 and leaves every object as it was.  The outcome
\* depends on the registries, owner_caps and next_id alone and is examined after
\* every step that changes one of them.)
C22_NotAuthorizedRejected ==
    \A v \in VaultIds, oc \in OwnerCapIds, c \in 0 .. next_id :
        (owner_caps[oc].vault_id = v /\ ~contains(vaults[v].authorized_caps, c)) =>
            revoke_agent_cap_result(vaults[v], v, owner_caps[oc], c)
               = Abort(E_INVALID_CAP)

C22_RevokeUnknownFails ==
    [][/\ \/ /\ UNCHANGED <<owner_caps, next_id>>
             /\ \A v \in VaultIds :
                   vaults'[v].authorized_caps = vaults[v].authorized_caps
          \/ C22_NotAuthorizedRejected'
       /\ (OwnerStep("revoke_agent_cap")
              /\ owner_caps[last'.cap].vault_id = last'.vault) =>
             IF last'.result = Success
             THEN contains(vaults[last'.vault].authorized_caps, last'.emitted[1].cap_id)
             ELSE /\ last'.result = Abort(E_INVALID_CAP)
                  /\ last'.emitted = NoEvents
                  /\ UNCHANGED <<vaults, owner_caps, agent_caps, revoked, hist>>]_vars

C22_Witness ==
    /\ last.op = "revoke_agent_cap"
    /\ last.result = Abort(E_INVALID_CAP)
    /\ owner_caps[last.cap].vault_id = last.vault
    /\ revoked # {}
    /\ vaults[last.vault].authorized_caps = <<>>
    /\ \A c \in revoked : agent_caps[c].vault_id = last.vault

-----------------------------------------------------------------------------
\* C23: create_vault succeeds for every caller, coin (of value 0 too) and
\* policy; the new vault has the coin's value as balance, the caller as owner,
\* the five arguments as policy, zero total_spent, tx_count and last_tx_time and
\* an empty authorized_caps; exactly one OwnerCap, bound to the new vault, is
\* created and given to the caller; no existing object changes.
C23_VaultCreated ==
    [][(last'.op = "create_vault" /\ vars' # vars) =>
          \A sender \in Addresses, coin \in Coins, policy \in PolicyChoices :
             create_vault(sender, coin, policy) =>
                LET v == last'.vault
                IN /\ last'.result = Success
                   /\ DOMAIN vaults' \ DOMAIN vaults = {v}
                   /\ vaults'[v] = [owner |-> sender, balance_sui |-> coin,
                                    policy |-> policy, authorized_caps |-> <<>>,
                                    total_spent |-> 0, last_tx_time |-> 0,
                                    tx_count |-> 0]
                   /\ \E oc \in DOMAIN owner_caps' :
                         /\ DOMAIN owner_caps' \ DOMAIN owner_caps = {oc}
                         /\ owner_caps'[oc] = [vault_id |-> v, holder |-> sender]
                         /\ oc # v
                   /\ \A w \in VaultIds : vaults'[w] = vaults[w]
                   /\ \A oc \in OwnerCapIds : owner_caps'[oc] = owner_caps[oc]
                   /\ agent_caps' = agent_caps]_vars

C23_Witness ==
    /\ last.op = "create_vault"
    /\ last.result = Success
    /\ Cardinality(VaultIds) = 2
    /\ vaults[last.vault].balance_sui = 0
    /\ vaults[last.vault].policy.expires_at <= clock
    /\ vaults[last.vault].policy.max_per_tx > vaults[last.vault].policy.max_budget

-----------------------------------------------------------------------------
\* C24: in every step, a vault's balance goes down only in a successful
\* withdraw, withdraw_all or agent_withdraw on it and up only in a successful
\* deposit on it; every other step (failed ones included) leaves it as it is;
\* deposit with the vault's own OwnerCap succeeds, adds the coin's value to the
\* balance and changes nothing else.
C24_BalanceMoves ==
    [][/\ \A v \in VaultIds :
             /\ vaults'[v].balance_sui < vaults[v].balance_sui =>
                   /\ last'.op \in {"withdraw", "withdraw_all", "agent_withdraw"}
                   /\ last'.result = Success
                   /\ last'.vault = v
                   /\ last'.coin = vaults[v].balance_sui - vaults'[v].balance_sui
             /\ vaults'[v].balance_sui > vaults[v].balance_sui =>
                   /\ last'.op = "deposit"
                   /\ last'.result = Success
                   /\ last'.vault = v
             /\ (last'.result # Success
                    \/ last'.op \in {"update_policy", "reset_counters",
                                     "create_agent_cap", "revoke_agent_cap",
                                     "create_vault"}) =>
                   vaults'[v].balance_sui = vaults[v].balance_sui
       /\ (OwnerStep("deposit") /\ owner_caps[last'.cap].vault_id = last'.vault) =>
             LET v == last'.vault
             IN /\ last'.result = Success
                /\ \A coin \in Coins :
                      deposit(v, last'.cap, coin) =>
                         /\ vaults'[v] = [vaults[v] EXCEPT !.balance_sui = @ + coin]
                         /\ \A w \in VaultIds \ {v} : vaults'[w] = vaults[w]
                         /\ UNCHANGED <<owner_caps, agent_caps, hist>>]_vars

C24_Witness ==
    /\ last.op = "deposit"
    /\ last.result = Success
    /\ vaults[last.vault].balance_sui = MaxBalance
    /\ last.emitted[1].amount = 1

-----------------------------------------------------------------------------
-----------------------------------------------------------------------------
\* C26: the AgentWithdrawal event of a successful agent_withdraw carries the
\* vault and capability identifiers used, the amount and action tag asked for,
\* the new total_spent, max_budget minus the new total_spent (not negative) as
\* remaining_budget, the new tx_count, and as timestamp the time used for the
\* expiry and cooldown checks.
C26_EventContents ==
    [][(AgentWithdrawStep /\ last'.result = Success) =>
          LET v == last'.vault
              c == last'.cap
              amount == hist'[v][Len(hist'[v])].amount
          IN \A a \in ActionTypes :
                agent_withdraw(v, c, amount, a) =>
                   /\ last'.emitted =
                         <<[type |-> "AgentWithdrawal", vault_id |-> v,
                            agent_cap_id |-> c, amount |-> amount,
                            action_type |-> a,
                            total_spent |-> vaults'[v].total_spent,
                            remaining_budget |-> vaults'[v].policy.max_budget
                                                    - vaults'[v].total_spent,
                            tx_count |-> vaults'[v].tx_count,
                            timestamp |-> clock]>>
                   /\ last'.emitted[1].remaining_budget >= 0
                   /\ last'.emitted[1].total_spent = vaults[v].total_spent + amount
                   /\ last'.emitted[1].tx_count = vaults[v].tx_count + 1
                   /\ last'.emitted[1].timestamp = vaults'[v].last_tx_time]_vars

C26_Witness ==
    /\ last.op = "agent_withdraw"
    /\ last.result = Success
    /\ Len(last.emitted) = 1
    /\ last.emitted[1].tx_count = 2
    /\ last.emitted[1].total_spent = 2
    /\ last.emitted[1].remaining_budget = 0
    /\ last.emitted[1].action_type = 1
    /\ last.emitted[1].timestamp = 1

-----------------------------------------------------------------------------
(* The SDK functions, under SdkSpec *)

\* C27: with amount omitted, checkPolicy allows exactly when nowMs < expiresAt,
\* and txCount = 0 or nowMs - lastTxTime >= cooldownMs, and actionType is in
\* allowedActions, whatever balance, totalSpent, maxBudget and maxPerTx are;
\* with amount supplied it requires in addition amount > 0, amount <= maxPerTx,
\* amount <= maxBudget - totalSpent and amount <= balance.
C27_MirrorChecks ==
    sdk.fn = "checkPolicy" =>
       LET s == sdk.vault
           base == /\ sdk.nowMs < s.policy.expiresAt
                   /\ (s.txCount = 0
                          \/ sdk.nowMs - s.lastTxTime >= s.policy.cooldownMs)
                   /\ \E i \in DOMAIN s.policy.allowedActions :
                         s.policy.allowedActions[i] = sdk.actionType
       IN IF sdk.amount = undefined
          THEN sdk.returned.allowed <=> base
          ELSE sdk.returned.allowed <=>
                  /\ base
                  /\ sdk.amount[1] > 0
                  /\ sdk.amount[1] <= s.policy.maxPerTx
                  /\ sdk.amount[1] <= s.policy.maxBudget - s.totalSpent
                  /\ sdk.amount[1] <= s.balance

C27_Witness ==
    /\ sdk.fn = "checkPolicy"
    /\ sdk.amount = undefined
    /\ sdk.vault.balance = 0
    /\ sdk.vault.totalSpent > sdk.vault.policy.maxBudget
    /\ sdk.vault.txCount > 0
    /\ sdk.vault.policy.cooldownMs > 0
    /\ sdk.returned = PolicyCheckResult(TRUE, "Policy check passed")

-----------------------------------------------------------------------------
-----------------------------------------------------------------------------
\* the environment holds a sponsor key: the variable is set and not blank
KeyIsSet(env) ==
    /\ env.SPONSOR_PRIVATE_KEY # undefined
    /\ \E i \in DOMAIN env.SPONSOR_PRIVATE_KEY[1] :
          env.SPONSOR_PRIVATE_KEY[1][i] \notin Whitespace

\* this call sent the transaction to the client and had its answer
Executed ==
    \/ sdk.fn = "executeAgentTransaction"
    \/ sdk.fn = "executeSponsoredAgentTransaction" /\ KeyIsSet(sdk.env)

\* C29: executeAgentTransaction and executeSponsoredAgentTransaction (with a
\* sponsor key set) resolve with the digest of the response exactly when its
\* effects status is "success"; for any other or missing status they throw an
\* error with their prefix and the error text of the response, or
\* "Transaction failed on-chain" when it has none; a transaction that failed on
\* the ledger never yields a digest.
C29_DigestExactlyOnSuccess ==
    Executed =>
       LET reply == sdk.reply
           outcome == sdk.run.outcome
           status == IF reply.kind = "rejected" \/ reply.value.effects = << >> THEN undefined
                     ELSE reply.value.effects[1].status
           success == status # << >> /\ status[1].status = <<"success">>
           text == IF status # << >> /\ status[1].error # << >>
                   THEN status[1].error[1] ELSE "Transaction failed on-chain"
           prefix == IF sdk.fn = "executeAgentTransaction" THEN "Agent TX failed: "
                     ELSE "Sponsored agent TX failed: "
       IN /\ success <=> outcome.kind = "resolved"
          /\ success => outcome.value = reply.value.digest
          /\ ~success /\ reply.kind = "resolved" => outcome.error = <<prefix, text>>
          /\ sdk.result # Success => outcome.kind = "rejected"

C29_Witness ==
    /\ sdk.fn = "executeSponsoredAgentTransaction"
    /\ KeyIsSet(sdk.env)
    /\ sdk.result = Abort(E_BUDGET_EXCEEDED)
    /\ sdk.reply.kind = "resolved"
    /\ effectsStatus(sdk.reply.value) = <<"failure">>
    /\ sdk.run.outcome = Rejected(<<"Sponsored agent TX failed: ", "MoveAbort">>)

-----------------------------------------------------------------------------
\* C30: with SPONSOR_PRIVATE_KEY unset or blank, executeSponsoredAgentTransaction
\* throws "SPONSOR_PRIVATE_KEY is not set" before any other step, whatever the
\* transaction and whatever the ledger would have answered: it has made no
\* call (nothing built, nothing signed, no request to the client) and the
\* transaction still has no sender and no gas owner.
C30_NoSponsorKeyNoStep ==
    sdk.fn = "executeSponsoredAgentTransaction" /\ ~KeyIsSet(sdk.env) =>
       /\ sdk.run.outcome = Rejected(<<"SPONSOR_PRIVATE_KEY is not set">>)
       /\ sdk.run.calls = << >>
       /\ sdk.run.transaction.sender = undefined
       /\ sdk.run.transaction.gasOwner = undefined

C30_Witness ==
    /\ sdk.fn = "executeSponsoredAgentTransaction"
    /\ sdk.env.SPONSOR_PRIVATE_KEY = <<<<" ", "\t">>>>
    /\ sdk.result = Success
    /\ sdk.reply.kind = "resolved"
    /\ effectsStatus(sdk.reply.value) = <<"success">>
    /\ sdk.run = Finished(<< >>, sdk.transaction, Rejected(<<"SPONSOR_PRIVATE_KEY is not set">>))

-----------------------------------------------------------------------------
\* the positions in the calls of a run at which fn was called
CallsOf(run, fn) == {i \in DOMAIN run.calls : run.calls[i].fn = fn}

-----------------------------------------------------------------------------
\* the reason by which checkPolicy names the dimension of an abort code
ReasonOfKind(code) ==
    CASE code = E_ZERO_AMOUNT -> "Amount must be greater than zero"
      [] code = E_EXPIRED -> "Policy has expired"
      [] code = E_COOLDOWN -> "Cooldown active"
      [] code = E_PER_TX_EXCEEDED -> "exceeds per-tx limit"
      [] code = E_BUDGET_EXCEEDED -> "exceeds remaining budget"
      [] code = E_NOT_WHITELISTED -> "is not whitelisted"
      [] code = E_INSUFFICIENT_BALANCE -> "Insufficient vault balance"
      [] OTHER -> "none"

\* C32: for every vault with an authorized capability and every supplied
\* amount and action tag, at the ledger's time: when agent_withdraw aborts with
\* kind K, checkPolicy on the snapshot of that vault denies with the reason
\* that names K, also when more than one check is violated at once.
C32_SameDimension ==
    \A v \in VaultIds, c \in AgentCapIds, amount \in Amounts, a \in ActionTypes :
       (Authorized(v, c) /\ WouldWithdraw(v, c, amount, a).status = "abort") =>
          WouldCheck(v, a, <<amount>>)
             = PolicyCheckResult(FALSE, ReasonOfKind(WouldWithdraw(v, c, amount, a).code))

-----------------------------------------------------------------------------
\* C33: a successful agent_withdraw leaves total_spent <= policy.max_budget,
\* whatever the owner did before it: the sum total_spent + amount it writes is
\* at most max_budget, a 64-bit value, so the addition cannot overflow.  (Stated
\* of every call that would succeed, in every state reached, and of every
\* successful step.)
C33_WithinBudgetAfter ==
    \A v \in VaultIds, c \in AgentCapIds, amount \in Amounts, a \in ActionTypes :
       WouldWithdraw(v, c, amount, a) = Success =>
          /\ vaults[v].total_spent + amount <= vaults[v].policy.max_budget
          /\ agent_withdraw_update(vaults[v], amount, clock).total_spent
                <= agent_withdraw_update(vaults[v], amount, clock).policy.max_budget

C33_BudgetHoldsAfterWithdraw ==
    [][/\ UNCHANGED <<vaults, agent_caps, clock>> \/ C33_WithinBudgetAfter'
       /\ (AgentWithdrawStep /\ last'.result = Success) =>
             /\ vaults'[last'.vault].total_spent <= vaults'[last'.vault].policy.max_budget
             /\ vaults[last'.vault].total_spent + last'.coin
                   <= vaults[last'.vault].policy.max_budget]_vars

C33_Witness ==
    /\ last.op = "agent_withdraw"
    /\ last.result = Success
    /\ vaults[last.vault].total_spent = vaults[last.vault].policy.max_budget
    /\ vaults[last.vault].tx_count > 1
    /\ last.coin < vaults[last.vault].total_spent

-----------------------------------------------------------------------------
\* what a transaction step pays into vault v and what it pays out of it
PaidIn(v) ==
    IF last'.op = "deposit" /\ last'.result = Success /\ last'.vault = v
    THEN last'.emitted[1].amount ELSE 0

PaidOut(v) ==
    IF last'.op \in {"withdraw", "withdraw_all", "agent_withdraw"}
          /\ last'.result = Success /\ last'.vault = v
    THEN last'.coin ELSE 0

\* C34: funds are conserved.  A vault starts with the coin it was created
\* with; every transaction changes the balance of every vault by exactly what
\* a successful deposit paid in minus the coin a successful withdraw,
\* withdraw_all or agent_withdraw returned, so that the balance is the initial
\* deposit plus the deposits minus the coins returned; the balance is never
\* negative and no operation returns more than the balance held before it.
\* (A step that leaves the vaults as they were has paid nothing in or out.)
C34_FundsConserved ==
    [][\/ clock' # clock
       \/ IF vaults' = vaults
          THEN \/ last' = last
               \/ last'.result # Success
               \/ PaidIn(last'.vault) = 0 /\ PaidOut(last'.vault) = 0
          ELSE \A v \in DOMAIN vaults' :
                  IF v \notin VaultIds
                  THEN /\ last'.op = "create_vault"
                       /\ vaults'[v].balance_sui = last'.emitted[1].initial_balance
                       /\ vaults'[v].balance_sui >= 0
                  ELSE /\ vaults'[v].balance_sui
                             = vaults[v].balance_sui + PaidIn(v) - PaidOut(v)
                       /\ PaidIn(v) >= 0
                       /\ PaidOut(v) >= 0
                       /\ PaidOut(v) <= vaults[v].balance_sui
                       /\ vaults'[v].balance_sui >= 0]_vars

C34_Witness ==
    /\ last.op = "withdraw_all"
    /\ last.result = Success
    /\ last.coin = 1
    /\ vaults[last.vault].balance_sui = 0
    /\ vaults[last.vault].total_spent = 1
    /\ Cardinality(VaultIds) = 1

-----------------------------------------------------------------------------
\* C35: authorized_caps of a vault holds no identifier twice, and only
\* identifiers of AgentCaps bound to this vault; AgentCaps come from
\* create_agent_cap alone, which registers the one it mints with the vault it
\* binds it to.  Hence a capability found in the registry of a vault is bound
\* to it, and agent_withdraw on a vault never succeeds with a capability that
\* was minted for another vault.
C35_RegistryWellFormed ==
    \A v \in VaultIds :
       LET caps == vaults[v].authorized_caps
       IN /\ \A i, j \in DOMAIN caps : caps[i] = caps[j] => i = j
          /\ \A i \in DOMAIN caps :
                caps[i] \in AgentCapIds /\ agent_caps[caps[i]].vault_id = v
          /\ \A c \in AgentCapIds :
                agent_caps[c].vault_id # v =>
                   /\ ~index_of(caps, c)[1]
                   /\ \A amount \in Amounts, a \in ActionTypes, now \in 0 .. MaxClock :
                         agent_withdraw_result(vaults[v], v, agent_caps[c], c,
                                               amount, a, now) # Success

C35_RegistryHoldsOwnCaps ==
    [][/\ UNCHANGED <<vaults, agent_caps>> \/ C35_RegistryWellFormed'
       /\ agent_caps' # agent_caps =>
             /\ last'.op = "create_agent_cap"
             /\ last'.result = Success
             /\ DOMAIN agent_caps' = AgentCapIds \cup {next_id}
             /\ next_id \notin ObjectIds
             /\ agent_caps'[next_id].vault_id = last'.vault
             /\ vaults'[last'.vault].authorized_caps
                   = Append(vaults[last'.vault].authorized_caps, next_id)
             /\ \A c \in AgentCapIds : agent_caps'[c] = agent_caps[c]
       /\ (AgentWithdrawStep /\ last'.result = Success) =>
             agent_caps[last'.cap].vault_id = last'.vault]_vars

C35_Witness ==
    /\ last.op = "agent_withdraw"
    /\ last.result = Abort(E_INVALID_CAP)
    /\ Cardinality(VaultIds) > 1
    /\ agent_caps[last.cap].vault_id # last.vault
    /\ vaults[agent_caps[last.cap].vault_id].authorized_caps = <<last.cap>>
    /\ vaults[last.vault].balance_sui > 0

-----------------------------------------------------------------------------
\* C36: budget, cooldown and counters belong to the vault, not to the
\* capability.  After a successful agent_withdraw of some amount with a
\* capability A, for every other authorized capability B of the vault: a call
\* with B is decided exactly as the same call with A; B can be given at most
\* the remaining budget less that amount; until cooldown_ms has passed since
\* A's withdrawal a call with B that is not rejected earlier fails with
\* CooldownActive; and the amounts released through all capabilities since the
\* last reset add up to at most max_budget.
C36_SharedAcrossCapabilities ==
    [][(AgentWithdrawStep /\ last'.result = Success) =>
          LET v == last'.vault
              A == last'.cap
              amount == last'.coin
              policy == vaults[v].policy
          IN /\ SumOfAmounts(hist'[v]) <= vaults'[v].policy.max_budget
             /\ \A B \in AgentCapIds \ {A} :
                   (agent_caps[B].vault_id = v /\ contains(vaults[v].authorized_caps, B)) =>
                      \A x \in Amounts, a \in ActionTypes, now \in clock .. MaxClock + 1 :
                         LET withB == agent_withdraw_result(vaults'[v], v, agent_caps'[B], B, x, a, now)
                             withA == agent_withdraw_result(vaults'[v], v, agent_caps'[A], A, x, a, now)
                         IN /\ withB = withA
                            /\ withB = Success =>
                                  x <= policy.max_budget - vaults[v].total_spent - amount
                            /\ (x > 0 /\ now < policy.expires_at
                                      /\ now - clock < policy.cooldown_ms) =>
                                  withB = Abort(E_COOLDOWN)]_vars

C36_Witness ==
    /\ last.op = "agent_withdraw"
    /\ last.result = Success
    /\ vaults[last.vault].policy.cooldown_ms > 0
    /\ \E B \in AgentCapIds \ {last.cap} :
          /\ Authorized(last.vault, B)
          /\ vaults[last.vault].balance_sui > 0
          /\ vaults[last.vault].total_spent < vaults[last.vault].policy.max_budget
          /\ WouldWithdraw(last.vault, B, 1, 0) = Abort(E_COOLDOWN)

-----------------------------------------------------------------------------
\* C37: in every vault tx_count = 0 exactly when total_spent = 0, and then
\* last_tx_time = 0 too.  The cooldown exemption looks at tx_count alone: with
\* tx_count = 0 no agent_withdraw fails with CooldownActive, and after a first
\* withdrawal at time 0, which leaves last_tx_time = 0, a call that passes the
\* earlier checks before cooldown_ms has passed fails with CooldownActive.
\* (Examined after every step that changes a vault or a capability.)
C37_CountersAndExemption ==
    \A v \in VaultIds :
       /\ vaults[v].tx_count = 0 <=> vaults[v].total_spent = 0
       /\ vaults[v].tx_count = 0 => vaults[v].last_tx_time = 0
       /\ (vaults[v].tx_count > 0 /\ vaults[v].last_tx_time = 0) =>
             \A c \in AgentCapIds, amount \in Amounts, a \in ActionTypes, now \in 0 .. MaxClock + 1 :
                (/\ amount > 0
                 /\ Authorized(v, c)
                 /\ now < vaults[v].policy.expires_at
                 /\ now < vaults[v].policy.cooldown_ms) =>
                   agent_withdraw_result(vaults[v], v, agent_caps[c], c, amount, a, now)
                      = Abort(E_COOLDOWN)

C37_FirstAtTimeZero ==
    [][/\ UNCHANGED <<vaults, agent_caps>> \/ C37_CountersAndExemption'
       /\ (AgentWithdrawStep /\ vaults[last'.vault].tx_count = 0) =>
             last'.result # Abort(E_COOLDOWN)]_vars

C37_Witness ==
    /\ last.op = "agent_withdraw"
    /\ last.result = Success
    /\ clock = 0
    /\ vaults[last.vault].tx_count = 1
    /\ vaults[last.vault].last_tx_time = 0
    /\ vaults[last.vault].balance_sui > 0
    /\ WouldWithdraw(last.vault, last.cap, 1, 0) = Abort(E_COOLDOWN)

-----------------------------------------------------------------------------
\* the snapshots that differ from s in authorizedCaps, id or owner only: the
\* registry emptied or extended, another identifier, another owner, and all
\* three at once
DifferingInIdentity(s) ==
    {[s EXCEPT !.authorizedCaps = <<>>],
     [s EXCEPT !.authorizedCaps = Append(@, s.id + 1)],
     [s EXCEPT !.id = @ + 1],
     [s EXCEPT !.owner = CHOOSE o \in Addresses : o # s.owner],
     [s EXCEPT !.authorizedCaps = Append(@, s.id + 1), !.id = @ + 1,
               !.owner = CHOOSE o \in Addresses : o # s.owner]}

\* the Vault object of which s is the snapshot
VaultOf(s) ==
    [owner |-> s.owner, balance_sui |-> s.balance,
     policy |-> [max_budget |-> s.policy.maxBudget, max_per_tx |-> s.policy.maxPerTx,
                 allowed_actions |-> s.policy.allowedActions,
                 cooldown_ms |-> s.policy.cooldownMs,
                 expires_at |-> s.policy.expiresAt],
     authorized_caps |-> s.authorizedCaps, total_spent |-> s.totalSpent,
     last_tx_time |-> s.lastTxTime, tx_count |-> s.txCount]

\* C38: verdict and reason of checkPolicy do not depend on authorizedCaps, id
\* or owner of the snapshot: snapshots that differ in these fields only get
\* the same result for every action tag, now and amount.  So checkPolicy
\* allows or denies a delegate whose capability is not in the registry as it
\* would any other, while agent_withdraw with that capability and a positive
\* amount fails with InvalidCapability.
C38_BlindToCapabilities ==
    sdk.fn = "checkPolicy" =>
       /\ \A t \in DifferingInIdentity(sdk.vault) :
             checkPolicy(t, sdk.actionType, sdk.nowMs, sdk.amount) = sdk.returned
       /\ parseVaultData(sdk.vault.id, VaultOf(sdk.vault)) = sdk.vault
       /\ \A cap_id \in {sdk.vault.id + 1, sdk.vault.id + Cardinality(Addresses)} :
             (sdk.amount # undefined /\ sdk.amount[1] > 0
                /\ ~contains(sdk.vault.authorizedCaps, cap_id)) =>
                agent_withdraw_result(VaultOf(sdk.vault), sdk.vault.id,
                                      AgentCap(sdk.vault.id, "0xB"), cap_id,
                                      sdk.amount[1], sdk.actionType, sdk.nowMs)
                   = Abort(E_INVALID_CAP)

C38_Witness ==
    /\ sdk.fn = "checkPolicy"
    /\ sdk.vault.authorizedCaps = <<>>
    /\ sdk.vault.txCount > 0
    /\ sdk.amount = <<1>>
    /\ sdk.returned = PolicyCheckResult(TRUE, "Policy check passed")
    /\ agent_withdraw_result(VaultOf(sdk.vault), sdk.vault.id, AgentCap(sdk.vault.id, "0xB"),
                             sdk.vault.id + 1, 1, sdk.actionType, sdk.nowMs)
          = Abort(E_INVALID_CAP)

-----------------------------------------------------------------------------
(* The ledger with policies that run out within the time modelled: the same *)
(* transactions as Next, the owner choosing among policies that allow every *)
(* withdrawal the balance covers and expire at 1 or after the last tick.    *)

ExpiringPolicies ==
    { Policy(MaxBalance, MaxBalance, <<0, 1>>, 0, expires_at) :
         expires_at \in {1, MaxClock + 1} }

ExpiryNext ==
    \/ \E sender \in Addresses, coin \in Coins, policy \in ExpiringPolicies :
          create_vault(sender, coin, policy)
    \/ \E v \in VaultIds, oc \in OwnerCapIds, coin \in Coins : deposit(v, oc, coin)
    \/ \E v \in VaultIds, oc \in OwnerCapIds : withdraw_all(v, oc)
    \/ \E v \in VaultIds, oc \in OwnerCapIds, amount \in Coins : withdraw(v, oc, amount)
    \/ \E v \in VaultIds, oc \in OwnerCapIds : reset_counters(v, oc)
    \/ \E v \in VaultIds, oc \in OwnerCapIds, p \in ExpiringPolicies :
          update_policy(v, oc, p)
    \/ \E v \in VaultIds, oc \in OwnerCapIds, a \in AgentAddresses :
          create_agent_cap(v, oc, a)
    \/ \E v \in VaultIds, oc \in OwnerCapIds, c \in ObjectIds :
          revoke_agent_cap(v, oc, c)
    \/ \E v \in VaultIds, c \in AgentCapIds, amount \in Coins, a \in ActionTypes :
          agent_withdraw(v, c, amount, a)
    \/ Tick

ExpirySpec == Init /\ [][ExpiryNext]_vars

\* the policy of vault v has expired: now >= policy.expires_at
Expired(v) == clock >= vaults[v].policy.expires_at

\* C39: the clock never goes back, and once now >= policy.expires_at holds of
\* a vault, an agent_withdraw on it does not succeed and changes nothing, and
\* after every step that is not a successful update_policy of that vault to a
\* later expires_at (deposits, withdrawals by the owner, counter resets,
\* capability mints and revocations, clock ticks, transactions on other
\* vaults) the vault is still expired and no agent_withdraw on it, with any
\* capability, amount and action tag, would succeed; the step that makes it
\* unexpired is an update_policy whose expires_at is later than the old one
\* and than now.
C39_ExpiryIsPermanent ==
    [][/\ clock' >= clock
       /\ \A v \in DOMAIN vaults :
             Expired(v) =>
                /\ (AgentWithdrawStep /\ last'.vault = v) =>
                      last'.result # Success /\ vaults'[v] = vaults[v]
                /\ IF clock' >= vaults'[v].policy.expires_at
                   THEN \A c \in DOMAIN agent_caps', amount \in Amounts, a \in ActionTypes :
                           agent_withdraw_result(vaults'[v], v, agent_caps'[c], c,
                                                 amount, a, clock') # Success
                   ELSE /\ OwnerStep("update_policy")
                        /\ last'.vault = v
                        /\ last'.result = Success
                        /\ vaults'[v].policy.expires_at > vaults[v].policy.expires_at
                        /\ vaults'[v].policy.expires_at > clock']_vars

\* an agent_withdraw has just failed as expired on a vault that paid the same
\* delegate before the expiry, and which holds funds that the same call
\* would have paid out at time 0
C39_Witness ==
    /\ last.op = "agent_withdraw"
    /\ last.result = Abort(E_EXPIRED)
    /\ Expired(last.vault)
    /\ hist[last.vault] # <<>>
    /\ vaults[last.vault].tx_count > 0
    /\ vaults[last.vault].balance_sui > 0
    /\ agent_withdraw_result(vaults[last.vault], last.vault, agent_caps[last.cap],
                             last.cap, 1, 0, 0) = Success

-----------------------------------------------------------------------------
(* getOwnerCaps and getAgentCaps.  Each waits for the client once per trip   *)
(* round its while loop, so a call is a process: PageSpec is one call, with  *)
(* one step per trip, the client's answers drawn from a bounded set.         *)

MaxPages == 3

\* null, which is neither undefined nor a value <<x>>
null == <<"null", "null">>

OWNER_CAP_TYPE == "PACKAGE_ID::agent_vault::OwnerCap"
AGENT_CAP_TYPE == "PACKAGE_ID::agent_vault::AgentCap"

\* a value of a vault_id field: what typeof says of it, what String makes of
\* it, and its id field if it has one
StringValue(str) == [typeof |-> "string", value |-> str, id |-> undefined]
ObjectValue(id) == [typeof |-> "object", value |-> "[object Object]", id |-> id]

unwrapFields(val) ==
    IF val.fields # undefined THEN val.fields[1] ELSE val

extractFields(content) ==
    IF content.dataType # "moveObject"
    THEN Rejected(<<"Expected moveObject content">>)
    ELSE IF content.fields = undefined
    THEN Rejected(<<"Missing fields in moveObject">>)
    ELSE Resolved(unwrapFields(content.fields[1]))

\* typeof fields.vault_id === "string" ? fields.vault_id
\*    : fields.vault_id?.id ?? String(fields.vault_id)
vaultId(fields) ==
    IF fields.vault_id.typeof = "string" THEN fields.vault_id.value
    ELSE IF fields.vault_id.id # undefined THEN fields.vault_id.id[1]
    ELSE fields.vault_id.value

\* for (const item of page.data): the caps after the items, or what is thrown
RECURSIVE push(_, _)
push(caps, data) ==
    IF data = << >> THEN Resolved(caps)
    ELSE LET item == Head(data)
         IN IF item.data = undefined \/ item.data[1].content = undefined
            THEN push(caps, Tail(data))
            ELSE LET fields == extractFields(item.data[1].content[1])
                 IN IF fields.kind = "rejected" THEN fields
                    ELSE push(Append(caps, [id |-> item.data[1].objectId,
                                            vaultId |-> vaultId(fields.value)]),
                              Tail(data))

\* the locals of a call at the head of its while loop, with the requests made
\* and the outcome once there is one
Locals(address) ==
    [address |-> address, caps |-> << >>, cursor |-> undefined, hasNext |-> TRUE,
     calls |-> << >>, outcome |-> undefined]

\* a trip round the while loop that goes on for as long as the page has a cursor
getOwnerCaps_while_cursor(run, reply) ==
    LET asked == [run EXCEPT !.calls =
                     Append(@, Call("getOwnedObjects",
                                    [owner |-> run.address,
                                     filter |-> [StructType |-> OWNER_CAP_TYPE],
                                     options |-> [showContent |-> TRUE],
                                     cursor |-> run.cursor]))]
    IN IF reply.kind = "rejected"
       THEN [asked EXCEPT !.outcome = <<reply>>]
       ELSE LET page == reply.value
                pushed == push(run.caps, page.data)
            IN IF pushed.kind = "rejected"
               THEN [asked EXCEPT !.outcome = <<pushed>>]
               ELSE LET next == [asked EXCEPT !.caps = pushed.value,
                                              !.cursor = page.nextCursor,
                                              !.hasNext = page.nextCursor # null]
                    IN IF next.hasNext THEN next
                       ELSE [next EXCEPT !.outcome = <<Resolved(next.caps)>>]

\* a trip round the while loop of getOwnerCaps, the client answering reply
getOwnerCaps_while(run, reply) ==
    LET asked == [run EXCEPT !.calls =
                     Append(@, Call("getOwnedObjects",
                                    [owner |-> run.address,
                                     filter |-> [StructType |-> OWNER_CAP_TYPE],
                                     options |-> [showContent |-> TRUE],
                                     cursor |-> run.cursor]))]
    IN IF reply.kind = "rejected"
       THEN [asked EXCEPT !.outcome = <<reply>>]
       ELSE LET page == reply.value
                pushed == push(run.caps, page.data)
            IN IF pushed.kind = "rejected"
               THEN [asked EXCEPT !.outcome = <<pushed>>]
               ELSE LET next == [asked EXCEPT !.caps = pushed.value,
                                              !.cursor = page.nextCursor,
                                              !.hasNext = page.hasNextPage]
                    IN IF next.hasNext THEN next
                       ELSE [next EXCEPT !.outcome = <<Resolved(next.caps)>>]

\* a trip round the while loop of getAgentCaps
getAgentCaps_while(run, reply) ==
    LET asked == [run EXCEPT !.calls =
                     Append(@, Call("getOwnedObjects",
                                    [owner |-> run.address,
                                     filter |-> [StructType |-> AGENT_CAP_TYPE],
                                     options |-> [showContent |-> TRUE],
                                     cursor |-> run.cursor]))]
    IN IF reply.kind = "rejected"
       THEN [asked EXCEPT !.outcome = <<reply>>]
       ELSE LET page == reply.value
                pushed == push(run.caps, page.data)
            IN IF pushed.kind = "rejected"
               THEN [asked EXCEPT !.outcome = <<pushed>>]
               ELSE LET next == [asked EXCEPT !.caps = pushed.value,
                                              !.cursor = page.nextCursor,
                                              !.hasNext = page.hasNextPage]
                    IN IF next.hasNext THEN next
                       ELSE [next EXCEPT !.outcome = <<Resolved(next.caps)>>]

\* the items a page can hold: capability objects whose vault_id is a string
\* or an object with an id, an object sent without content, an entry
\* without data, and content that is not a Move object
Item(objectId, content) == [data |-> <<[objectId |-> objectId, content |-> content]>>]
MoveObject(vault_id) ==
    [dataType |-> "moveObject", fields |-> <<[vault_id |-> vault_id, fields |-> undefined]>>]
CapItem1 == Item("0xcap1", <<MoveObject(StringValue("0xvault1"))>>)
CapItem2 == Item("0xcap2", <<MoveObject(ObjectValue(<<"0xvault2">>))>>)
NoContentItem == Item("0xcap3", undefined)
NoDataItem == [data |-> undefined]
PackageItem == Item("0xpkg", <<[dataType |-> "package", fields |-> undefined]>>)

Page(data, hasNextPage, nextCursor) ==
    [data |-> data, hasNextPage |-> hasNextPage, nextCursor |-> nextCursor]

\* the answers of client.getOwnedObjects
PageReplies ==
    {Resolved(Page(data, flags[1], flags[2])) :
        data \in {<<CapItem1>>, <<CapItem2, NoContentItem, CapItem1>>,
                  <<NoDataItem>>, <<CapItem1, PackageItem>>},
        flags \in {<<TRUE, <<"cursor1">> >>, <<TRUE, null>>,
                   <<FALSE, null>>, <<FALSE, <<"cursor2">> >>}}
      \cup {Rejected(<<"request failed">>)}

\* the answers that report hasNextPage = false
LastPageReplies ==
    {reply \in PageReplies : reply.kind = "resolved" /\ ~reply.value.hasNextPage}

PagingFns == {"getOwnerCaps", "getAgentCaps"}

getOwnerCaps(ownerAddress) ==
    /\ sdk.fn = "none"
    /\ sdk' = [fn |-> "getOwnerCaps", replies |-> << >>, run |-> Locals(ownerAddress)]
    /\ UNCHANGED ledger

getAgentCaps(agentAddress) ==
    /\ sdk.fn = "none"
    /\ sdk' = [fn |-> "getAgentCaps", replies |-> << >>, run |-> Locals(agentAddress)]
    /\ UNCHANGED ledger

\* the call goes once round its loop: it asks for a page, is answered, and
\* goes through the items.  At most MaxPages requests are answered with a
\* page that has a next one.
getOwnedObjects(reply) ==
    /\ sdk.fn \in PagingFns
    /\ sdk.run.outcome = undefined
    /\ LET run == IF sdk.fn = "getOwnerCaps"
                  THEN getOwnerCaps_while(sdk.run, reply)
                  ELSE getAgentCaps_while(sdk.run, reply)
       IN /\ run.outcome = undefined => Len(run.calls) < MaxPages
          /\ sdk' = [sdk EXCEPT !.replies = Append(@, reply), !.run = run]
    /\ UNCHANGED ledger

PageNext ==
    \/ \E ownerAddress \in Addresses : getOwnerCaps(ownerAddress)
    \/ \E agentAddress \in AgentAddresses : getAgentCaps(agentAddress)
    \/ \E reply \in PageReplies : getOwnedObjects(reply)

\* the server does in the end answer with a page that reports
\* hasNextPage = false
PageSpec ==
    /\ Init
    /\ [][PageNext]_vars
    /\ WF_vars(\E reply \in LastPageReplies : getOwnedObjects(reply))

-----------------------------------------------------------------------------
\* the items of the pages answered, in page order and in item order
RECURSIVE ItemsOf(_)
ItemsOf(replies) ==
    IF replies = << >> THEN << >>
    ELSE Head(replies).value.data \o ItemsOf(Tail(replies))

HasContent(item) == item.data # undefined /\ item.data[1].content # undefined

\* the entry of an item that has well-formed content
EntryOf(item) ==
    LET vault_id == item.data[1].content[1].fields[1].vault_id
    IN [id |-> item.data[1].objectId,
        vaultId |-> IF vault_id.typeof = "string" THEN vault_id.value ELSE vault_id.id[1]]

WellFormed(item) ==
    HasContent(item) => /\ item.data[1].content[1].dataType = "moveObject"
                        /\ item.data[1].content[1].fields # undefined

\* what holds of a call of getOwnerCaps or getAgentCaps at every moment
C40_PagesInOrder ==
    sdk.fn \in PagingFns =>
       LET run == sdk.run
           calls == run.calls
           replies == sdk.replies
           n == Len(replies)
           ends(reply) == \/ reply.kind = "rejected"
                          \/ ~reply.value.hasNextPage
                          \/ \E i \in DOMAIN reply.value.data : ~WellFormed(reply.value.data[i])
       IN \* one request per answer, each to getOwnedObjects for the address
          \* and the type of the function, the first without a cursor and
          \* each later one with the nextCursor of the page before
          /\ Len(calls) = n
          /\ \A i \in 1 .. n :
                /\ calls[i].fn = "getOwnedObjects"
                /\ calls[i].args.owner = run.address
                /\ calls[i].args.filter.StructType =
                      (IF sdk.fn = "getOwnerCaps" THEN OWNER_CAP_TYPE ELSE AGENT_CAP_TYPE)
                /\ calls[i].args.cursor =
                      (IF i = 1 THEN undefined ELSE replies[i - 1].value.nextCursor)
          \* no request follows a page that reports hasNextPage = false
          /\ \A i \in 1 .. n - 1 :
                replies[i].kind = "resolved" /\ replies[i].value.hasNextPage
          \* the call is over exactly when the last answer ends it
          /\ run.outcome # undefined <=> (n > 0 /\ ends(replies[n]))
          \* it returns the entries of the items that have content, in order
          /\ (n > 0 /\ replies[n].kind = "resolved"
                /\ \A i \in DOMAIN replies[n].value.data : WellFormed(replies[n].value.data[i])) =>
                LET withContent == SelectSeq(ItemsOf(replies), HasContent)
                    entries == [i \in 1 .. Len(withContent) |-> EntryOf(withContent[i])]
                IN /\ run.caps = entries
                   /\ ~replies[n].value.hasNextPage => run.outcome = <<Resolved(entries)>>
          \* it fails only on a failed request or on malformed content
          /\ (n > 0 /\ replies[n].kind = "rejected") => run.outcome = <<replies[n]>>

\* C40: getOwnerCaps and getAgentCaps ask for pages one after another, each
\* request carrying the nextCursor of the page before, and ask no more once a
\* page reports hasNextPage = false; they return one entry for each item
\* that has content, in page order and in item order, skipping the items
\* without content; and when the server in the end reports
\* hasNextPage = false the call comes to an end.
C40_PagesThenStop ==
    /\ []C40_PagesInOrder
    /\ (sdk.fn \in PagingFns) ~> (sdk.fn \in PagingFns /\ sdk.run.outcome # undefined)

\* getOwnerCaps has returned three entries from two pages, the second of
\* which held an item without content and came with the cursor of the first
C40_Witness ==
    /\ sdk.fn = "getOwnerCaps"
    /\ Len(sdk.replies) = 2
    /\ sdk.replies[1] = Resolved(Page(<<CapItem1>>, TRUE, <<"cursor1">>))
    /\ sdk.replies[2] = Resolved(Page(<<CapItem2, NoContentItem, CapItem1>>, FALSE, null))
    /\ sdk.run.calls[2].args.cursor = <<"cursor1">>
    /\ sdk.run.outcome = <<Resolved(<<[id |-> "0xcap1", vaultId |-> "0xvault1"],
                                      [id |-> "0xcap2", vaultId |-> "0xvault2"],
                                      [id |-> "0xcap1", vaultId |-> "0xvault1"]>>)>>

====
